---- MODULE Spec2Model ----
(***************************************************************************)
(* A model of the rectpack packer: the Packer orchestrator (staging,      *)
(* sorting, Pack, RepackAll, Clear) driving the MaxRects, Skyline and      *)
(* Guillotine algorithms over an integer bin.                              *)
(*                                                                         *)
(* Packer.Insert and Packer.Pack hand Packer.Padding to the algorithm's    *)
(* Insert; the MaxRects and Skyline Insert read it as p.padding.  The      *)
(* model carries that one configured value as the `padding` argument of    *)
(* every algorithm's Insert.                                               *)
(*                                                                         *)
(* Slices are sequences; the code's 0-based index i is the index i + 1     *)
(* here.  An index outside its slice, which panics in Go, is an evaluation *)
(* error in TLC: a run that ends without one has met no such index.        *)
(* math.MaxInt and math.MinInt are the largest and smallest integers TLC   *)
(* holds; the code uses them as scores no placement reaches.               *)
(***************************************************************************)
EXTENDS Integers, Sequences, FiniteSets, TLC

(***************************************************************************)
(* Bounds of the model.                                                    *)
(***************************************************************************)
\* Width of the bin given at construction.
BinWidth == 4
\* Height of the bin given at construction.
BinHeight == 3
\* Inserted sizes have Width and Height in 1..MaxDim.
MaxDim == 2
\* At most MaxInserted sizes are inserted, with the IDs 1..MaxInserted.
MaxInserted == 3
\* Padding ranges over 0..MaxPadding.
MaxPadding == 1
\* RepackAll is called at most MaxRepacks times.
MaxRepacks == 1
\* Setting changes made after the first packing operation of a packer.
MaxReconfigs == 1
\* The coordinates given to NewRectLTRB range over -MaxCoord..MaxCoord.
MaxCoord == 2
\* Padding of the MaxRects packers of SpecWidePadding ranges over
\* 0..MaxWidePadding.
MaxWidePadding == 2

(***************************************************************************)
(* Heuristic bit fields.                                                   *)
(***************************************************************************)
MaxRects == 0
Skyline == 1
Guillotine == 2

BestShortSideFit == 0
BestLongSideFit == 16
BestAreaFit == 32
BottomLeft == 48
ContactPoint == 64
WorstAreaFit == 80
WorstShortSideFit == 96
WorstLongSideFit == 112
MinWaste == 128

SplitShorterLeftoverAxis == 0
SplitLongerLeftoverAxis == 256
SplitMinimizeArea == 512
SplitMaximizeArea == 768
SplitShorterAxis == 1024
SplitLongerAxis == 1280

typeMask == 15
fitMask == 240
splitMask == 3840

\* e & typeMask
Algorithm(e) == e % 16
\* e & fitMask
Bin(e) == ((e \div 16) % 16) * 16
\* e & splitMask
Split(e) == ((e \div 256) % 16) * 256

\* math.MaxInt / math.MinInt: sentinels beyond every score of the bounded model.
MaxInt == 2147483647
MinInt == -2147483647

abs(x) == IF x >= 0 THEN x ELSE -x
min(a, b) == IF a < b THEN a ELSE b
max(a, b) == IF a > b THEN a ELSE b

(***************************************************************************)
(* Geometry: Size = [Width, Height, ID]; Rect = Point + Size + Flipped.    *)
(***************************************************************************)
NewSizeID(id, width, height) == [Width |-> width, Height |-> height, ID |-> id]

NewRect(x, y, w, h) ==
    [X |-> x, Y |-> y, Width |-> w, Height |-> h, ID |-> 0, Flipped |-> FALSE]

NewRectLTRB(l, t, r, b) ==
    [X |-> l, Y |-> r, Width |-> r - l, Height |-> b - t, ID |-> 0, Flipped |-> FALSE]

\* The zero value of Rect (var bestNode Rect).
ZeroRect == NewRect(0, 0, 0, 0)

\* rect.Size
SizeOf(rect) == [Width |-> rect.Width, Height |-> rect.Height, ID |-> rect.ID]

Area(sz) == sz.Width * sz.Height
Left(r) == r.X
Top(r) == r.Y
Right(r) == r.X + r.Width
Bottom(r) == r.Y + r.Height

ContainsRect(r, rect) ==
    /\ r.X <= rect.X
    /\ rect.X + rect.Width <= r.X + r.Width
    /\ r.Y <= rect.Y
    /\ rect.Y + rect.Height <= r.Y + r.Height

Intersects(r, rect) ==
    /\ rect.X < r.X + r.Width
    /\ r.X < rect.X + rect.Width
    /\ rect.Y < r.Y + r.Height
    /\ r.Y < rect.Y + rect.Height

(***************************************************************************)
(* Padding helpers.                                                        *)
(***************************************************************************)
padSize(size, padding) ==
    IF padding <= 0 THEN size
    ELSE [size EXCEPT !.Width = @ + padding, !.Height = @ + padding]

unpadRect(rect, padding) ==
    IF padding <= 0 THEN rect
    ELSE LET rx == IF rect.X = 0
                   THEN [rect EXCEPT !.X = @ + padding, !.Width = @ - padding * 2]
                   ELSE [rect EXCEPT !.Width = @ - padding]
         IN  IF rx.Y = 0
             THEN [rx EXCEPT !.Y = @ + padding, !.Height = @ - padding * 2]
             ELSE [rx EXCEPT !.Height = @ - padding]

\* slices.Delete(s, i, i+1) with a 0-based index i.
Delete(s, i) == SubSeq(s, 1, i) \o SubSeq(s, i + 2, Len(s))

\* s[i] = s[last]; s = s[:last] with a 0-based index i.
SwapRemove(s, i) ==
    LET last == Len(s) - 1
    IN  SubSeq([s EXCEPT ![i + 1] = s[last + 1]], 1, last)

(***************************************************************************)
(* algorithmBase.  The algorithm state p is a record                       *)
(*   packed, maxWidth, maxHeight, usedArea, allowFlip   (algorithmBase)    *)
(*   freeRects, newFreeRects                            (maxRects,         *)
(*                                                       guillotinePack)   *)
(*   skyline, wasteMap                                  (skylinePack;      *)
(*                              wasteMap is wasteMap.freeRects)            *)
(***************************************************************************)
\* algorithmBase.Reset panics on width <= 0 or height <= 0.
\* Reset without its precondition: it never panics.
ResetPanics_never(width, height) == FALSE

ResetPanics(width, height) == width <= 0 \/ height <= 0

algorithmBase_Reset(p, width, height) ==
    [p EXCEPT !.maxWidth = width, !.maxHeight = height,
              !.usedArea = 0, !.packed = <<>>]

(***************************************************************************)
(* MaxRects.                                                               *)
(***************************************************************************)
maxRects_Reset(p, width, height) ==
    LET b == algorithmBase_Reset(p, width, height)
    IN  [b EXCEPT !.newFreeRects = <<>>,
                  !.freeRects = <<NewRect(0, 0, width, height)>>]

\* One step of a findPosition loop: the candidate replaces the best so far
\* when `better`; an upright candidate leaves bestNode.Flipped as it is.
Candidate(best, better, freeRect, w, h, flipped, s1, s2) ==
    IF better
    THEN [node |-> [best.node EXCEPT !.X = freeRect.X, !.Y = freeRect.Y,
                                     !.Width = w, !.Height = h,
                                     !.Flipped = IF flipped THEN TRUE ELSE @],
          score1 |-> s1, score2 |-> s2]
    ELSE best

\* The result of every findPosition before its loop starts.
NoCandidate(s1, s2) == [node |-> ZeroRect, score1 |-> s1, score2 |-> s2]

\* findPositionBottomLeft, the loop over freeRects from index i (0-based).
RECURSIVE findPositionBottomLeftFrom(_, _, _, _, _)
findPositionBottomLeftFrom(p, width, height, best, i) ==
    IF i >= Len(p.freeRects) THEN best
    ELSE
    LET freeRect == p.freeRects[i + 1]
        Flipped(up) ==
            IF p.allowFlip /\ freeRect.Width >= height /\ freeRect.Height >= width
            THEN LET topSideY == freeRect.Y + width
                 IN  Candidate(up,
                         topSideY < up.score1
                           \/ (topSideY = up.score1 /\ freeRect.X < up.score2),
                         freeRect, height, width, TRUE, topSideY, freeRect.X)
            ELSE up
    IN  findPositionBottomLeftFrom(p, width, height,
            Flipped(IF freeRect.Width >= width /\ freeRect.Height >= height
                    THEN LET topSideY == freeRect.Y + height
                         IN  Candidate(best,
                                 topSideY < best.score1
                                   \/ (topSideY = best.score1 /\ freeRect.X < best.score2),
                                 freeRect, width, height, FALSE, topSideY, freeRect.X)
                    ELSE best),
            i + 1)

findPositionBottomLeft(p, width, height) ==
    findPositionBottomLeftFrom(p, width, height, NoCandidate(MaxInt, MaxInt), 0)

\* findPositionBestShortSideFit, the loop over freeRects from index i;
\* score1 = bestShortSideFit, score2 = bestLongSideFit.
RECURSIVE findPositionBestShortSideFitFrom(_, _, _, _, _)
findPositionBestShortSideFitFrom(p, width, height, best, i) ==
    IF i >= Len(p.freeRects) THEN best
    ELSE
    LET freeRect == p.freeRects[i + 1]
        Flipped(up) ==
            IF p.allowFlip /\ freeRect.Width >= height /\ freeRect.Height >= width
            THEN LET flippedLeftoverHoriz == abs(freeRect.Width - height)
                     flippedLeftoverVert == abs(freeRect.Height - width)
                     flippedShortSideFit == min(flippedLeftoverHoriz, flippedLeftoverVert)
                     flippedLongSideFit == max(flippedLeftoverHoriz, flippedLeftoverVert)
                 IN  Candidate(up,
                         flippedShortSideFit < up.score1
                           \/ (flippedShortSideFit = up.score1
                                 /\ flippedLongSideFit < up.score2),
                         freeRect, height, width, TRUE,
                         flippedShortSideFit, flippedLongSideFit)
            ELSE up
    IN  findPositionBestShortSideFitFrom(p, width, height,
            Flipped(IF freeRect.Width >= width /\ freeRect.Height >= height
                    THEN LET leftoverHoriz == abs(freeRect.Width - width)
                             leftoverVert == abs(freeRect.Height - height)
                             shortSideFit == min(leftoverHoriz, leftoverVert)
                             longSideFit == max(leftoverHoriz, leftoverVert)
                         IN  Candidate(best,
                                 shortSideFit < best.score1
                                   \/ (shortSideFit = best.score1
                                         /\ longSideFit < best.score2),
                                 freeRect, width, height, FALSE, shortSideFit, longSideFit)
                    ELSE best),
            i + 1)

findPositionBestShortSideFit(p, width, height) ==
    findPositionBestShortSideFitFrom(p, width, height, NoCandidate(MaxInt, MaxInt), 0)

\* findPositionBestLongSideFit, the loop over freeRects from index i.  The
\* loop keeps (bestShortSideFit, bestLongSideFit) and compares the long side
\* first; score1 = bestShortSideFit, score2 = bestLongSideFit, as returned.
RECURSIVE findPositionBestLongSideFitFrom(_, _, _, _, _)
findPositionBestLongSideFitFrom(p, width, height, best, i) ==
    IF i >= Len(p.freeRects) THEN best
    ELSE
    LET freeRect == p.freeRects[i + 1]
        Flipped(up) ==
            IF p.allowFlip /\ freeRect.Width >= height /\ freeRect.Height >= width
            THEN LET leftoverHoriz == abs(freeRect.Width - height)
                     leftoverVert == abs(freeRect.Height - width)
                     shortSideFit == min(leftoverHoriz, leftoverVert)
                     longSideFit == max(leftoverHoriz, leftoverVert)
                 IN  Candidate(up,
                         longSideFit < up.score2
                           \/ (longSideFit = up.score2 /\ shortSideFit < up.score1),
                         freeRect, height, width, TRUE, shortSideFit, longSideFit)
            ELSE up
    IN  findPositionBestLongSideFitFrom(p, width, height,
            Flipped(IF freeRect.Width >= width /\ freeRect.Height >= height
                    THEN LET leftoverHoriz == abs(freeRect.Width - width)
                             leftoverVert == abs(freeRect.Height - height)
                             shortSideFit == min(leftoverHoriz, leftoverVert)
                             longSideFit == max(leftoverHoriz, leftoverVert)
                         IN  Candidate(best,
                                 longSideFit < best.score2
                                   \/ (longSideFit = best.score2
                                         /\ shortSideFit < best.score1),
                                 freeRect, width, height, FALSE, shortSideFit, longSideFit)
                    ELSE best),
            i + 1)

findPositionBestLongSideFit(p, width, height) ==
    findPositionBestLongSideFitFrom(p, width, height, NoCandidate(MaxInt, MaxInt), 0)

\* findPositionBestAreaFit, the loop over freeRects from index i;
\* score1 = bestAreaFit, score2 = bestShortSideFit.
RECURSIVE findPositionBestAreaFitFrom(_, _, _, _, _)
findPositionBestAreaFitFrom(p, width, height, best, i) ==
    IF i >= Len(p.freeRects) THEN best
    ELSE
    LET freeRect == p.freeRects[i + 1]
        areaFit == freeRect.Width * freeRect.Height - width * height
        Flipped(up) ==
            IF p.allowFlip /\ freeRect.Width >= height /\ freeRect.Height >= width
            THEN LET leftoverHoriz == abs(freeRect.Width - height)
                     leftoverVert == abs(freeRect.Height - width)
                     shortSideFit == min(leftoverHoriz, leftoverVert)
                 IN  Candidate(up,
                         areaFit < up.score1
                           \/ (areaFit = up.score1 /\ shortSideFit < up.score2),
                         freeRect, height, width, TRUE, areaFit, shortSideFit)
            ELSE up
    IN  findPositionBestAreaFitFrom(p, width, height,
            Flipped(IF freeRect.Width >= width /\ freeRect.Height >= height
                    THEN LET leftoverHoriz == abs(freeRect.Width - width)
                             leftoverVert == abs(freeRect.Height - height)
                             shortSideFit == min(leftoverHoriz, leftoverVert)
                         IN  Candidate(best,
                                 areaFit < best.score1
                                   \/ (areaFit = best.score1 /\ shortSideFit < best.score2),
                                 freeRect, width, height, FALSE, areaFit, shortSideFit)
                    ELSE best),
            i + 1)

findPositionBestAreaFit(p, width, height) ==
    findPositionBestAreaFitFrom(p, width, height, NoCandidate(MaxInt, MaxInt), 0)

commonIntervalLength(i1start, i1end, i2start, i2end) ==
    IF i1end < i2start \/ i2end < i1start THEN 0
    ELSE min(i1end, i2end) - max(i1start, i2start)

\* contactPointScoreNode, the loop over p.packed from index i (0-based).
RECURSIVE contactPointScoreNodeFrom(_, _, _, _, _, _, _)
contactPointScoreNodeFrom(p, x, y, width, height, score, i) ==
    IF i >= Len(p.packed) THEN score
    ELSE
    LET used == p.packed[i + 1]
    IN  contactPointScoreNodeFrom(p, x, y, width, height,
            score
              + (IF used.X = x + width \/ used.X + used.Width = x
                 THEN commonIntervalLength(used.Y, used.Y + used.Height, y, y + height)
                 ELSE 0)
              + (IF used.Y = y + height \/ used.Y + used.Height = y
                 THEN commonIntervalLength(used.X, used.X + used.Width, x, x + width)
                 ELSE 0),
            i + 1)

contactPointScoreNode(p, x, y, width, height) ==
    contactPointScoreNodeFrom(p, x, y, width, height,
        (IF x = 0 \/ x + width = p.maxWidth THEN height ELSE 0)
          + (IF y = 0 \/ y + height = p.maxHeight THEN width ELSE 0),
        0)

\* One candidate of findPositionContactPoint: a greater score is better.
ContactCandidate(best, score, freeRect, w, h, flipped) ==
    Candidate(best, score > best.score1, freeRect, w, h, flipped, score, MaxInt)

\* findPositionContactPoint, the loop over freeRects from index i;
\* score1 = bestContactScore, score2 = MaxInt.
RECURSIVE findPositionContactPointFrom(_, _, _, _, _)
findPositionContactPointFrom(p, width, height, best, i) ==
    IF i >= Len(p.freeRects) THEN best
    ELSE
    LET freeRect == p.freeRects[i + 1]
        Flipped(up) ==
            IF p.allowFlip /\ freeRect.Width >= height /\ freeRect.Height >= width
            THEN ContactCandidate(up,
                     contactPointScoreNode(p, freeRect.X, freeRect.Y, height, width),
                     freeRect, height, width, TRUE)
            ELSE up
    IN  findPositionContactPointFrom(p, width, height,
            Flipped(IF freeRect.Width >= width /\ freeRect.Height >= height
                    THEN ContactCandidate(best,
                             contactPointScoreNode(p, freeRect.X, freeRect.Y, width, height),
                             freeRect, width, height, FALSE)
                    ELSE best),
            i + 1)

findPositionContactPoint(p, width, height) ==
    findPositionContactPointFrom(p, width, height, NoCandidate(-1, MaxInt), 0)

\* newMaxRects falling back to BottomLeft, not to BestShortSideFit.
findNode_defaultBottomLeft(heuristic, p, width, height) ==
    CASE Bin(heuristic) = BestAreaFit -> findPositionBestAreaFit(p, width, height)
      [] Bin(heuristic) = BottomLeft -> findPositionBottomLeft(p, width, height)
      [] Bin(heuristic) = ContactPoint -> findPositionContactPoint(p, width, height)
      [] Bin(heuristic) = BestLongSideFit -> findPositionBestLongSideFit(p, width, height)
      [] Bin(heuristic) = BestShortSideFit -> findPositionBestShortSideFit(p, width, height)
      [] OTHER -> findPositionBottomLeft(p, width, height)

\* newMaxRects: the findNode selected by heuristic & fitMask.
findNode(heuristic, p, width, height) ==
    CASE Bin(heuristic) = BestAreaFit -> findPositionBestAreaFit(p, width, height)
      [] Bin(heuristic) = BottomLeft -> findPositionBottomLeft(p, width, height)
      [] Bin(heuristic) = ContactPoint -> findPositionContactPoint(p, width, height)
      [] Bin(heuristic) = BestLongSideFit -> findPositionBestLongSideFit(p, width, height)
      [] Bin(heuristic) = BestShortSideFit -> findPositionBestShortSideFit(p, width, height)
      [] OTHER -> findPositionBestShortSideFit(p, width, height)

maxRects_scoreRect(heuristic, p, width, height) ==
    LET Scored(r) ==
            IF r.node.Height = 0
            THEN [r EXCEPT !.score1 = MaxInt, !.score2 = MaxInt]
            ELSE r
    IN  Scored(findNode(heuristic, p, width, height))

\* insertNewFreeRectangle: the loop over the first newLastSize entries of
\* newFreeRects, from index i (0-based); st = [newFreeRects, newLastSize].
RECURSIVE insertNewFreeRectangleFrom(_, _, _)
insertNewFreeRectangleFrom(st, newFreeRect, i) ==
    IF i >= st.newLastSize
    THEN [st EXCEPT !.newFreeRects = Append(@, newFreeRect)]
    ELSE IF ContainsRect(st.newFreeRects[i + 1], newFreeRect)
    THEN st
    ELSE IF ContainsRect(newFreeRect, st.newFreeRects[i + 1])
    THEN LET nls == st.newLastSize - 1
             a == [st.newFreeRects EXCEPT ![i + 1] = st.newFreeRects[nls + 1]]
             last == Len(a) - 1
             b == [a EXCEPT ![nls + 1] = a[last + 1]]
         IN  insertNewFreeRectangleFrom(
                 [newFreeRects |-> SubSeq(b, 1, last), newLastSize |-> nls],
                 newFreeRect, i)
    ELSE insertNewFreeRectangleFrom(st, newFreeRect, i + 1)

insertNewFreeRectangle(st, newFreeRect) == insertNewFreeRectangleFrom(st, newFreeRect, 0)

\* One `if` of splitFreeNode: the new free rectangle is inserted when its
\* condition holds.
insertNewFreeRectangleIf(condition, st, newFreeRect) ==
    IF condition THEN insertNewFreeRectangle(st, newFreeRect) ELSE st

\* splitFreeNode: [split, newFreeRects]; split is the boolean it returns.
\* The four insertions are made in the order top, bottom, left, right.
splitFreeNode(newFreeRects, freeNode, usedNode) ==
    IF \/ usedNode.X >= freeNode.X + freeNode.Width
       \/ usedNode.X + usedNode.Width <= freeNode.X
       \/ usedNode.Y >= freeNode.Y + freeNode.Height
       \/ usedNode.Y + usedNode.Height <= freeNode.Y
    THEN [split |-> FALSE, newFreeRects |-> newFreeRects]
    ELSE
    LET overX == usedNode.X < freeNode.X + freeNode.Width
                   /\ usedNode.X + usedNode.Width > freeNode.X
        overY == usedNode.Y < freeNode.Y + freeNode.Height
                   /\ usedNode.Y + usedNode.Height > freeNode.Y
    IN  [split |-> TRUE,
         newFreeRects |->
            insertNewFreeRectangleIf(
                \* New node at the right side of the used node.
                overY /\ usedNode.X + usedNode.Width < freeNode.X + freeNode.Width,
                insertNewFreeRectangleIf(
                    \* New node at the left side of the used node.
                    overY /\ usedNode.X > freeNode.X
                          /\ usedNode.X < freeNode.X + freeNode.Width,
                    insertNewFreeRectangleIf(
                        \* New node at the bottom side of the used node.
                        overX /\ usedNode.Y + usedNode.Height
                                   < freeNode.Y + freeNode.Height,
                        insertNewFreeRectangleIf(
                            \* New node at the top side of the used node.
                            overX /\ usedNode.Y > freeNode.Y
                                  /\ usedNode.Y < freeNode.Y + freeNode.Height,
                            [newFreeRects |-> newFreeRects,
                             newLastSize |-> Len(newFreeRects)],
                            [freeNode EXCEPT !.Height = usedNode.Y - freeNode.Y]),
                        [freeNode EXCEPT
                            !.Y = usedNode.Y + usedNode.Height,
                            !.Height = freeNode.Y + freeNode.Height
                                         - (usedNode.Y + usedNode.Height)]),
                    [freeNode EXCEPT !.Width = usedNode.X - freeNode.X]),
                [freeNode EXCEPT
                    !.X = usedNode.X + usedNode.Width,
                    !.Width = freeNode.X + freeNode.Width
                                - (usedNode.X + usedNode.Width)]).newFreeRects]

\* pruneFreeList, first loop: the new free rectangles not contained in an
\* old one; removal is newFreeRects[j] = newFreeRects[last].
RECURSIVE pruneNew(_, _, _, _)
pruneNew(freeRects, newFreeRects, i, j) ==
    IF i >= Len(freeRects) THEN newFreeRects
    ELSE IF j >= Len(newFreeRects) THEN pruneNew(freeRects, newFreeRects, i + 1, 0)
    ELSE IF ContainsRect(freeRects[i + 1], newFreeRects[j + 1])
    THEN pruneNew(freeRects, SwapRemove(newFreeRects, j), i, j)
    ELSE pruneNew(freeRects, newFreeRects, i, j + 1)

\* pruneFreeList appending every new free rectangle, contained in an old one
\* or not.
pruneFreeList_keepsContained(p) ==
    [p EXCEPT !.freeRects = @ \o p.newFreeRects,
              !.newFreeRects = <<>>]

pruneFreeList(p) ==
    [p EXCEPT !.freeRects = @ \o pruneNew(p.freeRects, p.newFreeRects, 0, 0),
              !.newFreeRects = <<>>]

\* placeRect: the loop over freeRects from index i (0-based).
RECURSIVE placeRectFrom(_, _, _)
placeRectFrom(p, node, i) ==
    IF i >= Len(p.freeRects) THEN p
    ELSE LET Continue(r) ==
                 IF r.split
                 THEN placeRectFrom([p EXCEPT !.freeRects = SwapRemove(@, i),
                                              !.newFreeRects = r.newFreeRects],
                                    node, i)
                 ELSE placeRectFrom(p, node, i + 1)
         IN  Continue(splitFreeNode(p.newFreeRects, p.freeRects[i + 1], node))

\* placeRect leaving usedArea as it is.
placeRect_noArea(p, node) == pruneFreeList(placeRectFrom(p, node, 0))

placeRect(p, node) ==
    [pruneFreeList(placeRectFrom(p, node, 0)) EXCEPT !.usedArea = @ + Area(node)]

\* maxRects.Insert, inner loop from index i (0-based): the best (size,
\* placement) of the batch; index = -1 when no size has a placement.
RECURSIVE maxRects_bestFrom(_, _, _, _, _, _)
maxRects_bestFrom(heuristic, p, padding, sizes, best, i) ==
    IF i >= Len(sizes) THEN best
    ELSE
    LET size == padSize(sizes[i + 1], padding)
        Better(r) ==
            IF r.score1 < best.score1
               \/ (r.score1 = best.score1 /\ r.score2 < best.score2)
            THEN [node |-> [r.node EXCEPT !.ID = size.ID],
                  score1 |-> r.score1, score2 |-> r.score2, index |-> i]
            ELSE best
    IN  maxRects_bestFrom(heuristic, p, padding, sizes,
            Better(maxRects_scoreRect(heuristic, p, size.Width, size.Height)),
            i + 1)

maxRects_best(heuristic, p, padding, sizes) ==
    maxRects_bestFrom(heuristic, p, padding, sizes,
        [node |-> ZeroRect, score1 |-> MaxInt, score2 |-> MaxInt, index |-> -1], 0)

\* maxRects.Insert, the body of the outer loop once the best placement of
\* the batch is known.
RECURSIVE maxRects_Insert(_, _, _, _)
maxRects_place(heuristic, p, padding, sizes, best) ==
    IF best.index = -1 THEN [p |-> p, sizes |-> sizes]
    ELSE maxRects_Insert(heuristic,
             [placeRect(p, best.node) EXCEPT
                 !.packed = Append(@, unpadRect(best.node, padding))],
             padding, SwapRemove(sizes, best.index))

\* maxRects.Insert: [p, sizes]; sizes are the ones that could not be packed.
maxRects_Insert(heuristic, p, padding, sizes) ==
    IF Len(sizes) = 0 THEN [p |-> p, sizes |-> sizes]
    ELSE maxRects_place(heuristic, p, padding, sizes,
             maxRects_best(heuristic, p, padding, sizes))

(***************************************************************************)
(* Guillotine.                                                             *)
(***************************************************************************)
guillotinePack_Reset(p, width, height) ==
    LET b == algorithmBase_Reset(p, width, height)
    IN  [b EXCEPT !.freeRects = <<NewRect(0, 0, width, height)>>]

scoreBestArea(width, height, freeRect) ==
    freeRect.Width * freeRect.Height - width * height

scoreBestShort(width, height, freeRect) ==
    LET leftoverHoriz == abs(freeRect.Width - width)
        leftoverVert == abs(freeRect.Height - height)
    IN  min(leftoverHoriz, leftoverVert)

scoreBestLong(width, height, freeRect) ==
    LET leftoverHoriz == abs(freeRect.Width - width)
        leftoverVert == abs(freeRect.Height - height)
    IN  max(leftoverHoriz, leftoverVert)

\* newGuillotine: the scoreRect selected by heuristic & fitMask.
guillotine_scoreRect(heuristic, width, height, freeRect) ==
    CASE Bin(heuristic) = BestShortSideFit -> scoreBestShort(width, height, freeRect)
      [] Bin(heuristic) = BestLongSideFit -> scoreBestLong(width, height, freeRect)
      [] Bin(heuristic) = WorstAreaFit -> -scoreBestArea(width, height, freeRect)
      [] Bin(heuristic) = WorstShortSideFit -> -scoreBestShort(width, height, freeRect)
      [] Bin(heuristic) = WorstLongSideFit -> -scoreBestLong(width, height, freeRect)
      [] OTHER -> scoreBestArea(width, height, freeRect)

\* splitAlongAxis with the right-hand rectangle left at the free rectangle's
\* own X, so that it covers the placed rectangle.
splitAlongAxis_rightNotMoved(freeRects, freeRect, placedRect, splitHorizontal) ==
    LET bottom == [ZeroRect EXCEPT
                      !.X = freeRect.X,
                      !.Y = freeRect.Y + placedRect.Height,
                      !.Height = freeRect.Height - placedRect.Height,
                      !.Width = IF splitHorizontal THEN freeRect.Width
                                ELSE placedRect.Width]
        right == [ZeroRect EXCEPT
                      !.X = freeRect.X,
                      !.Y = freeRect.Y,
                      !.Width = freeRect.Width - placedRect.Width,
                      !.Height = IF splitHorizontal THEN placedRect.Height
                                 ELSE freeRect.Height]
        withBottom == IF bottom.Width > 0 /\ bottom.Height > 0
                      THEN Append(freeRects, bottom) ELSE freeRects
    IN  IF right.Width > 0 /\ right.Height > 0
        THEN Append(withBottom, right) ELSE withBottom

splitAlongAxis(freeRects, freeRect, placedRect, splitHorizontal) ==
    LET bottom == [ZeroRect EXCEPT
                      !.X = freeRect.X,
                      !.Y = freeRect.Y + placedRect.Height,
                      !.Height = freeRect.Height - placedRect.Height,
                      !.Width = IF splitHorizontal THEN freeRect.Width
                                ELSE placedRect.Width]
        right == [ZeroRect EXCEPT
                      !.X = freeRect.X + placedRect.Width,
                      !.Y = freeRect.Y,
                      !.Width = freeRect.Width - placedRect.Width,
                      !.Height = IF splitHorizontal THEN placedRect.Height
                                 ELSE freeRect.Height]
        withBottom == IF bottom.Width > 0 /\ bottom.Height > 0
                      THEN Append(freeRects, bottom) ELSE freeRects
    IN  IF right.Width > 0 /\ right.Height > 0
        THEN Append(withBottom, right) ELSE withBottom

\* newGuillotine: splitMethod = heuristic & splitMask.
\* splitByHeuristic that ignores the split method: every cut is horizontal.
splitByHeuristic_alwaysHorizontal(heuristic, freeRects, freeRect, placedRect) ==
    splitAlongAxis(freeRects, freeRect, placedRect, TRUE)

splitByHeuristic(heuristic, freeRects, freeRect, placedRect) ==
    LET w == freeRect.Width - placedRect.Width
        h == freeRect.Height - placedRect.Height
        splitMethod == Split(heuristic)
        splitHorizontal ==
            CASE splitMethod = SplitShorterLeftoverAxis -> w <= h
              [] splitMethod = SplitLongerLeftoverAxis -> w > h
              [] splitMethod = SplitMinimizeArea ->
                     placedRect.Width * h > w * placedRect.Height
              [] splitMethod = SplitMaximizeArea ->
                     placedRect.Width * h <= w * placedRect.Height
              [] splitMethod = SplitShorterAxis -> freeRect.Width <= freeRect.Height
              [] splitMethod = SplitLongerAxis -> freeRect.Width > freeRect.Height
              [] OTHER -> TRUE
    IN  splitAlongAxis(freeRects, freeRect, placedRect, splitHorizontal)

\* mergeFreeList: the loops from (i, j), 0-based.  Every comparison reads
\* freeRects[i] on both sides, as the source does.
RECURSIVE mergeFreeListFrom(_, _, _)
mergeFreeListFrom(freeRects, i, j) ==
    IF i >= Len(freeRects) THEN freeRects
    ELSE IF j >= Len(freeRects) THEN mergeFreeListFrom(freeRects, i + 1, i + 2)
    ELSE
    LET ri == freeRects[i + 1]
    IN  IF ri.Width = ri.Width /\ ri.X = ri.X
        THEN IF ri.Y = ri.Y + ri.Height
             THEN mergeFreeListFrom(
                      Delete([freeRects EXCEPT ![i + 1] =
                                 [ri EXCEPT !.Y = ri.Y - ri.Height,
                                            !.Height = ri.Height + ri.Height]], j),
                      i, j)
             ELSE IF ri.Y + ri.Height = ri.Y
             THEN mergeFreeListFrom(
                      Delete([freeRects EXCEPT ![i + 1] =
                                 [ri EXCEPT !.Height = ri.Height + ri.Height]], j),
                      i, j)
             ELSE mergeFreeListFrom(freeRects, i, j + 1)
        ELSE IF ri.Height = ri.Height /\ ri.Y = ri.Y
        THEN IF ri.X = ri.X + ri.Width
             THEN mergeFreeListFrom(
                      Delete([freeRects EXCEPT ![i + 1] =
                                 [ri EXCEPT !.X = ri.X - ri.Width,
                                            !.Width = ri.Width + ri.Width]], j),
                      i, j)
             ELSE IF ri.X + ri.Width = ri.X
             THEN mergeFreeListFrom(
                      Delete([freeRects EXCEPT ![i + 1] =
                                 [ri EXCEPT !.Width = ri.Width + ri.Width]], j),
                      i, j)
             ELSE mergeFreeListFrom(freeRects, i, j + 1)
        ELSE mergeFreeListFrom(freeRects, i, j + 1)

mergeFreeList(freeRects) == mergeFreeListFrom(freeRects, 0, 1)

\* guillotinePack.Insert, one fitting candidate of the loop over sizes.
guillotine_candidate(best, i, j, flipped, score) ==
    IF score < best.bestScore
    THEN [bestFreeRect |-> i, bestRect |-> j, bestFlipped |-> flipped,
          bestScore |-> score]
    ELSE best

\* guillotinePack.Insert, the loop over sizes (from j, 0-based) inside the
\* loop over free rectangles: a perfect fit breaks out of this loop only.
RECURSIVE guillotine_bestInRect(_, _, _, _, _, _, _)
guillotine_bestInRect(heuristic, p, padding, sizes, i, j, best) ==
    IF j >= Len(sizes) THEN best
    ELSE
    LET freeRect == p.freeRects[i + 1]
        size == padSize(sizes[j + 1], padding)
    IN  IF size.Width = freeRect.Width /\ size.Height = freeRect.Height
        THEN [bestFreeRect |-> i, bestRect |-> j, bestFlipped |-> FALSE,
              bestScore |-> MinInt]
        ELSE IF p.allowFlip /\ size.Height = freeRect.Width
                            /\ size.Width = freeRect.Height
        THEN [bestFreeRect |-> i, bestRect |-> j, bestFlipped |-> TRUE,
              bestScore |-> MinInt]
        ELSE IF size.Width <= freeRect.Width /\ size.Height <= freeRect.Height
        THEN guillotine_bestInRect(heuristic, p, padding, sizes, i, j + 1,
                 guillotine_candidate(best, i, j, FALSE,
                     guillotine_scoreRect(heuristic, size.Width, size.Height, freeRect)))
        ELSE IF p.allowFlip /\ size.Height <= freeRect.Width
                            /\ size.Width <= freeRect.Height
        THEN guillotine_bestInRect(heuristic, p, padding, sizes, i, j + 1,
                 guillotine_candidate(best, i, j, TRUE,
                     guillotine_scoreRect(heuristic, size.Height, size.Width, freeRect)))
        ELSE guillotine_bestInRect(heuristic, p, padding, sizes, i, j + 1, best)

\* The loop over the free rectangles from index i (0-based): `i =
\* len(p.freeRects)` does not end a range loop, so every free rectangle is
\* visited.
RECURSIVE guillotine_bestFrom(_, _, _, _, _, _)
guillotine_bestFrom(heuristic, p, padding, sizes, best, i) ==
    IF i >= Len(p.freeRects) THEN best
    ELSE guillotine_bestFrom(heuristic, p, padding, sizes,
             guillotine_bestInRect(heuristic, p, padding, sizes, i, 0, best), i + 1)

guillotine_best(heuristic, p, padding, sizes) ==
    guillotine_bestFrom(heuristic, p, padding, sizes,
        [bestFreeRect |-> 0, bestRect |-> 0, bestFlipped |-> FALSE,
         bestScore |-> MaxInt], 0)

\* The node guillotinePack.Insert places: the unpadded size at the corner of
\* the free rectangle, its dimensions swapped when flipped.
guillotine_newNode(freeRect, size, flipped) ==
    [X |-> freeRect.X, Y |-> freeRect.Y,
     Width |-> IF flipped THEN size.Height ELSE size.Width,
     Height |-> IF flipped THEN size.Width ELSE size.Height,
     ID |-> size.ID, Flipped |-> flipped]

\* guillotinePack.Insert, the placement of newNode in free rectangle
\* bestFreeRect: split, removal of the free rectangle, merge.
guillotine_place(heuristic, p, padding, bestFreeRect, newNode) ==
    [p EXCEPT
        !.freeRects = mergeFreeList(Delete(
                          splitByHeuristic(heuristic, p.freeRects,
                              p.freeRects[bestFreeRect + 1], newNode),
                          bestFreeRect)),
        !.usedArea = @ + Area(newNode),
        !.packed = Append(@, unpadRect(newNode, padding))]

\* guillotinePack.Insert, the body of the outer loop once the best placement
\* of the batch is known.
RECURSIVE guillotinePack_Insert(_, _, _, _)
guillotine_insertBest(heuristic, p, padding, sizes, best) ==
    IF best.bestScore = MaxInt THEN [p |-> p, sizes |-> sizes]
    ELSE guillotinePack_Insert(heuristic,
             guillotine_place(heuristic, p, padding, best.bestFreeRect,
                 guillotine_newNode(p.freeRects[best.bestFreeRect + 1],
                                    sizes[best.bestRect + 1], best.bestFlipped)),
             padding, Delete(sizes, best.bestRect))

\* guillotinePack.Insert with Merge = true: [p, sizes].
guillotinePack_Insert(heuristic, p, padding, sizes) ==
    IF Len(sizes) = 0 THEN [p |-> p, sizes |-> sizes]
    ELSE guillotine_insertBest(heuristic, p, padding, sizes,
             guillotine_best(heuristic, p, padding, sizes))

(***************************************************************************)
(* Skyline.  A skyline node is [X, Y, Width].                              *)
(***************************************************************************)
\* newSkyline: levelSelect, and wasteMap != nil exactly for MinWaste.
levelSelect(heuristic) ==
    IF Bin(heuristic) = MinWaste THEN MinWaste ELSE BottomLeft

\* The waste map (a guillotinePack) is reset with the skyline when there is one.
skylinePack_Reset(heuristic, p, width, height) ==
    LET b == algorithmBase_Reset(p, width, height)
    IN  [b EXCEPT !.skyline = <<[X |-> 0, Y |-> 0, Width |-> width]>>,
                  !.wasteMap = IF levelSelect(heuristic) = MinWaste
                               THEN <<NewRect(0, 0, width, height)>>
                               ELSE <<>>]

\* testFit, the loop from skyline index i (0-based) with widthLeft still to cover.
RECURSIVE testFitFrom(_, _, _, _, _)
testFitFrom(p, height, i, widthLeft, y) ==
    IF widthLeft <= 0 THEN [fits |-> TRUE, y |-> y]
    ELSE LET y2 == max(y, p.skyline[i + 1].Y)
         IN  IF y2 + height > p.maxHeight THEN [fits |-> FALSE, y |-> y2]
             ELSE testFitFrom(p, height, i + 1, widthLeft - p.skyline[i + 1].Width, y2)

testFit(p, index, width, height) ==
    LET x == p.skyline[index + 1].X
    IN  IF x + width > p.maxWidth THEN [fits |-> FALSE, y |-> 0]
        ELSE testFitFrom(p, height, index, width, p.skyline[index + 1].Y)

\* computeWaste, the loop from skyline index `index` (0-based).
RECURSIVE computeWasteFrom(_, _, _, _, _)
computeWasteFrom(p, index, rectLeft, rectRight, y) ==
    IF ~(index < Len(p.skyline) /\ p.skyline[index + 1].X < rectRight) THEN 0
    ELSE LET n == p.skyline[index + 1]
         IN  IF n.X >= rectRight \/ n.X + n.Width <= rectLeft THEN 0
             ELSE LET leftSide == n.X
                      rightSide == min(rectRight, leftSide + n.Width)
                  IN  (rightSide - leftSide) * (y - n.Y)
                        + computeWasteFrom(p, index + 1, rectLeft, rectRight, y)

computeWaste(p, index, width, height, y) ==
    LET rectLeft == p.skyline[index + 1].X
    IN  computeWasteFrom(p, index, rectLeft, rectLeft + width, y)

testFitWithWaste(p, index, width, height) ==
    LET Wasted(t) ==
            [fits |-> t.fits, y |-> t.y,
             wastedArea |-> IF t.fits THEN computeWaste(p, index, width, height, t.y)
                            ELSE 0]
    IN  Wasted(testFit(p, index, width, height))

\* addWaste, the loop from skyline index `index`: the waste rectangles
\* appended to wasteMap.freeRects.
RECURSIVE addWasteFrom(_, _, _, _, _)
addWasteFrom(p, index, rectLeft, rectRight, y) ==
    IF ~(index < Len(p.skyline) /\ p.skyline[index + 1].X < rectRight) THEN <<>>
    ELSE LET n == p.skyline[index + 1]
         IN  IF n.X >= rectRight \/ n.X + n.Width <= rectLeft THEN <<>>
             ELSE LET leftSide == n.X
                      rightSide == min(rectRight, leftSide + n.Width)
                      waste == NewRect(leftSide, n.Y, rightSide - leftSide, y - n.Y)
                  IN  <<waste>> \o addWasteFrom(p, index + 1, rectLeft, rectRight, y)

addWaste(p, index, width, height, y) ==
    LET rectLeft == p.skyline[index + 1].X
    IN  [p EXCEPT !.wasteMap = @ \o addWasteFrom(p, index, rectLeft, rectLeft + width, y)]

RECURSIVE mergeSkylinesFrom(_, _)
mergeSkylinesFrom(skyline, i) ==
    IF i >= Len(skyline) - 1 THEN skyline
    ELSE IF skyline[i + 1].Y = skyline[i + 2].Y
    THEN mergeSkylinesFrom(
             Delete([skyline EXCEPT ![i + 1].Width = @ + skyline[i + 2].Width], i + 1),
             i)
    ELSE mergeSkylinesFrom(skyline, i + 1)

mergeSkylines(skyline) == mergeSkylinesFrom(skyline, 0)

\* addLevel, the loop that shrinks or deletes the nodes under the new one.
RECURSIVE addLevelFrom(_, _)
addLevelFrom(skyline, i) ==
    IF i >= Len(skyline) THEN skyline
    ELSE LET prev == skyline[i]
             cur == skyline[i + 1]
         IN  IF cur.X < prev.X + prev.Width
             THEN LET shrink == prev.X + prev.Width - cur.X
                      shrunk == [cur EXCEPT !.X = @ + shrink, !.Width = @ - shrink]
                  IN  IF shrunk.Width <= 0
                      THEN addLevelFrom(Delete(skyline, i), i)
                      ELSE [skyline EXCEPT ![i + 1] = shrunk]
             ELSE skyline

addLevel(heuristic, p, index, rect) ==
    LET w == IF levelSelect(heuristic) = MinWaste
             THEN addWaste(p, index, rect.Width, rect.Height, rect.Y)
             ELSE p
        newNode == [X |-> rect.X, Y |-> rect.Y + rect.Height, Width |-> rect.Width]
        inserted == SubSeq(p.skyline, 1, index) \o <<newNode>>
                      \o SubSeq(p.skyline, index + 1, Len(p.skyline))
    IN  [w EXCEPT !.skyline = mergeSkylines(addLevelFrom(inserted, index + 1))]

\* One candidate of findBottomLeft / findMinWaste at skyline index i.
SkyCandidate(best, better, p, i, y, w, h, flipped, bestHeight, other) ==
    IF better
    THEN [node |-> [best.node EXCEPT !.X = p.skyline[i + 1].X, !.Y = y,
                                     !.Width = w, !.Height = h,
                                     !.Flipped = IF flipped THEN TRUE ELSE @],
          bestHeight |-> bestHeight, other |-> other, bestIndex |-> i]
    ELSE best

\* One candidate of findBottomLeft at skyline index i: t is what testFit
\* returned for the dimensions (w, h); other = bestWidth.
BottomLeftCandidate(best, t, p, i, w, h, flipped) ==
    SkyCandidate(best,
        t.y + h < best.bestHeight
          \/ (t.y + h = best.bestHeight /\ p.skyline[i + 1].Width < best.other),
        p, i, t.y, w, h, flipped, t.y + h, p.skyline[i + 1].Width)

\* findBottomLeft, the loop over the skyline from index i (0-based).
RECURSIVE findBottomLeftFrom(_, _, _, _, _)
findBottomLeftFrom(p, width, height, best, i) ==
    IF i >= Len(p.skyline) THEN best
    ELSE
    LET Upright(t) ==
            IF t.fits THEN BottomLeftCandidate(best, t, p, i, width, height, FALSE)
            ELSE best
        Flipped(up, tf) ==
            IF p.allowFlip /\ tf.fits
            THEN BottomLeftCandidate(up, tf, p, i, height, width, TRUE)
            ELSE up
    IN  findBottomLeftFrom(p, width, height,
            Flipped(Upright(testFit(p, i, width, height)),
                    testFit(p, i, height, width)),
            i + 1)

findBottomLeft(p, width, height) ==
    findBottomLeftFrom(p, width, height,
        [node |-> ZeroRect, bestHeight |-> MaxInt, other |-> MaxInt, bestIndex |-> -1],
        0)

\* One candidate of findMinWaste at skyline index i: t is what
\* testFitWithWaste returned for the dimensions (w, h); other = bestWastedArea.
MinWasteCandidate(best, t, p, i, w, h, flipped) ==
    SkyCandidate(best,
        t.wastedArea < best.other
          \/ (t.wastedArea = best.other /\ t.y + h < best.bestHeight),
        p, i, t.y, w, h, flipped, t.y + h, t.wastedArea)

\* findMinWaste, the loop over the skyline from index i (0-based).
RECURSIVE findMinWasteFrom(_, _, _, _, _)
findMinWasteFrom(p, width, height, best, i) ==
    IF i >= Len(p.skyline) THEN best
    ELSE
    LET Upright(t) ==
            IF t.fits THEN MinWasteCandidate(best, t, p, i, width, height, FALSE)
            ELSE best
        Flipped(up, tf) ==
            IF p.allowFlip /\ tf.fits
            THEN MinWasteCandidate(up, tf, p, i, height, width, TRUE)
            ELSE up
    IN  findMinWasteFrom(p, width, height,
            Flipped(Upright(testFitWithWaste(p, i, width, height)),
                    testFitWithWaste(p, i, height, width)),
            i + 1)

findMinWaste(p, width, height) ==
    findMinWasteFrom(p, width, height,
        [node |-> ZeroRect, bestHeight |-> MaxInt, other |-> MaxInt, bestIndex |-> -1],
        0)

\* skylinePack.Insert, one size of the inner loop: r is what findMinWaste or
\* findBottomLeft returned, score1/score2 as the switch binds them (MinWaste:
\* score1 = wasted area, score2 = height; BottomLeft: score1 = height,
\* score2 = width).
skyline_candidate(best, r, score1, score2, i) ==
    IF r.node.Height # 0
       /\ (score1 < best.score1
             \/ (score1 = best.score1 /\ score2 < best.score2))
    THEN [node |-> r.node, score1 |-> score1, score2 |-> score2,
          bestBinIndex |-> r.bestIndex, bestSizeIndex |-> i]
    ELSE best

\* skylinePack.Insert, inner loop from index i (0-based).
RECURSIVE skyline_bestFrom(_, _, _, _, _, _)
skyline_bestFrom(heuristic, p, padding, sizes, best, i) ==
    IF i >= Len(sizes) THEN best
    ELSE
    LET size == padSize(sizes[i + 1], padding)
        MinWasteFound(r) == skyline_candidate(best, r, r.other, r.bestHeight, i)
        BottomLeftFound(r) == skyline_candidate(best, r, r.bestHeight, r.other, i)
    IN  skyline_bestFrom(heuristic, p, padding, sizes,
            IF levelSelect(heuristic) = MinWaste
            THEN MinWasteFound(findMinWaste(p, size.Width, size.Height))
            ELSE BottomLeftFound(findBottomLeft(p, size.Width, size.Height)),
            i + 1)

skyline_best(heuristic, p, padding, sizes) ==
    skyline_bestFrom(heuristic, p, padding, sizes,
        [node |-> ZeroRect, score1 |-> MaxInt, score2 |-> MaxInt,
         bestBinIndex |-> -1, bestSizeIndex |-> -1], 0)

\* skylinePack.Insert, the body of the outer loop once the best placement of
\* the batch is known.
RECURSIVE skylinePack_Insert(_, _, _, _)
skyline_place(heuristic, p, padding, sizes, best) ==
    IF best.bestSizeIndex = -1 THEN [p |-> p, sizes |-> sizes]
    ELSE skylinePack_Insert(heuristic,
             [addLevel(heuristic, p, best.bestBinIndex, best.node) EXCEPT
                 !.usedArea = @ + Area(best.node),
                 !.packed = Append(@, [unpadRect(best.node, padding) EXCEPT
                                          !.ID = sizes[best.bestSizeIndex + 1].ID])],
             padding, Delete(sizes, best.bestSizeIndex))

\* skylinePack.Insert: [p, sizes].
skylinePack_Insert(heuristic, p, padding, sizes) ==
    IF Len(sizes) = 0 THEN [p |-> p, sizes |-> sizes]
    ELSE skyline_place(heuristic, p, padding, sizes,
             skyline_best(heuristic, p, padding, sizes))

\* testFit, the walk from skyline index i (0-based): TRUE when it reads
\* p.skyline[i] with i = len(p.skyline), the index-out-of-range panic of Go.
RECURSIVE testFitOverrunsFrom(_, _, _, _, _)
testFitOverrunsFrom(p, height, i, widthLeft, y) ==
    IF widthLeft <= 0 THEN FALSE
    ELSE IF i >= Len(p.skyline) THEN TRUE
    ELSE LET y2 == max(y, p.skyline[i + 1].Y)
         IN  IF y2 + height > p.maxHeight THEN FALSE
             ELSE testFitOverrunsFrom(p, height, i + 1,
                                      widthLeft - p.skyline[i + 1].Width, y2)

testFitOverruns(p, index, width, height) ==
    IF p.skyline[index + 1].X + width > p.maxWidth THEN FALSE
    ELSE testFitOverrunsFrom(p, height, index, width, p.skyline[index + 1].Y)

\* One pass of the inner loop of skylinePack.Insert: findBottomLeft and
\* findMinWaste call testFit for every size of the batch at every skyline
\* index, and for the rotated size too when flip is enabled.
skyline_walkOverruns(p, padding, sizes) ==
    \E j \in 1..Len(sizes), index \in 0..(Len(p.skyline) - 1) :
        LET size == padSize(sizes[j], padding)
        IN  \/ testFitOverruns(p, index, size.Width, size.Height)
            \/ p.allowFlip /\ testFitOverruns(p, index, size.Height, size.Width)

\* The algorithm state after the outer loop of skylinePack.Insert has placed
\* the best placement of the batch.
skyline_commit(heuristic, p, padding, sizes, best) ==
    [addLevel(heuristic, p, best.bestBinIndex, best.node) EXCEPT
        !.usedArea = @ + Area(best.node),
        !.packed = Append(@, [unpadRect(best.node, padding) EXCEPT
                                 !.ID = sizes[best.bestSizeIndex + 1].ID])]

\* skylinePack.Insert panics: some iteration of its outer loop walks past the
\* last skyline segment.
RECURSIVE skylinePack_InsertPanics(_, _, _, _)
skylinePack_InsertPanics(heuristic, p, padding, sizes) ==
    IF Len(sizes) = 0 THEN FALSE
    ELSE IF skyline_walkOverruns(p, padding, sizes) THEN TRUE
    ELSE LET Continue(best) ==
                 IF best.bestSizeIndex = -1 THEN FALSE
                 ELSE skylinePack_InsertPanics(heuristic,
                          skyline_commit(heuristic, p, padding, sizes, best),
                          padding, Delete(sizes, best.bestSizeIndex))
         IN  Continue(skyline_best(heuristic, p, padding, sizes))

(***************************************************************************)
(* Sort comparators and the sort of Pack.                                  *)
(***************************************************************************)
\* cmp.Compare
Compare(x, y) == IF x < y THEN -1 ELSE IF x > y THEN 1 ELSE 0

SortArea(a, b) == Compare(Area(b), Area(a))

\* p.sortFunc(a, b) for the comparators of the model.
CallSortFunc(sortFunc, a, b) ==
    CASE sortFunc = "SortArea" -> SortArea(a, b)

\* slices.SortFunc on a slice of at most 12 elements is an insertion sort:
\* element i sinks while cmp(data[j], data[j-1]) < 0.
RECURSIVE sinkFrom(_, _, _, _)
sinkFrom(data, sortFunc, rev, j) ==
    IF j > 0 /\ (IF rev THEN CallSortFunc(sortFunc, data[j], data[j + 1])
                 ELSE CallSortFunc(sortFunc, data[j + 1], data[j])) < 0
    THEN sinkFrom([data EXCEPT ![j + 1] = data[j], ![j] = data[j + 1]],
                  sortFunc, rev, j - 1)
    ELSE data

RECURSIVE insertionSortFrom(_, _, _, _)
insertionSortFrom(data, sortFunc, rev, i) ==
    IF i >= Len(data) THEN data
    ELSE insertionSortFrom(sinkFrom(data, sortFunc, rev, i), sortFunc, rev, i + 1)

\* slices.Reverse
Reverse(s) == [i \in 1..Len(s) |-> s[Len(s) + 1 - i]]

\* The ordering step of Pack without the sort: the comparator is never called.
PackOrder_unsorted(pk) ==
    IF pk.sortRev THEN Reverse(pk.unpacked) ELSE pk.unpacked

\* The ordering step of Pack.
PackOrder(pk) ==
    IF pk.sortFunc # "nil"
    THEN insertionSortFrom(pk.unpacked, pk.sortFunc, pk.sortRev, 1)
    ELSE IF pk.sortRev THEN Reverse(pk.unpacked)
    ELSE pk.unpacked

(***************************************************************************)
(* Packer.  pk = [unpacked, algo, sortFunc, sortRev, Padding, Online].     *)
(***************************************************************************)
\* p.algo.Reset, dispatched on the algorithm NewPacker chose.
algo_Reset(heuristic, p, width, height) ==
    CASE Algorithm(heuristic) = MaxRects -> maxRects_Reset(p, width, height)
      [] Algorithm(heuristic) = Skyline -> skylinePack_Reset(heuristic, p, width, height)
      [] Algorithm(heuristic) = Guillotine -> guillotinePack_Reset(p, width, height)

\* p.algo.Insert.
algo_Insert(heuristic, p, padding, sizes) ==
    CASE Algorithm(heuristic) = MaxRects -> maxRects_Insert(heuristic, p, padding, sizes)
      [] Algorithm(heuristic) = Skyline -> skylinePack_Insert(heuristic, p, padding, sizes)
      [] Algorithm(heuristic) = Guillotine -> guillotinePack_Insert(heuristic, p, padding, sizes)

\* NewPacker panics on an algorithm it does not know, and in the Reset of the
\* algorithm it constructs.
NewPackerPanics(maxWidth, maxHeight, heuristic) ==
    \/ Algorithm(heuristic) \notin {MaxRects, Skyline, Guillotine}
    \/ ResetPanics(maxWidth, maxHeight)

NewPacker(maxWidth, maxHeight, heuristic) ==
    [unpacked |-> <<>>,
     algo |-> algo_Reset(heuristic,
                  [packed |-> <<>>, maxWidth |-> 0, maxHeight |-> 0, usedArea |-> 0,
                   allowFlip |-> FALSE, freeRects |-> <<>>, newFreeRects |-> <<>>,
                   skyline |-> <<>>, wasteMap |-> <<>>],
                  maxWidth, maxHeight),
     sortFunc |-> "SortArea",
     sortRev |-> FALSE,
     Padding |-> 0,
     Online |-> FALSE]

Rects(pk) == pk.algo.packed
Unpacked(pk) == pk.unpacked
MaxSize(pk) == [Width |-> pk.algo.maxWidth, Height |-> pk.algo.maxHeight]

\* Packer.Size
Packer_Size(pk) ==
    LET rects == Rects(pk)
        f[i \in 0..Len(rects)] ==
            IF i = 0 THEN [Width |-> 0, Height |-> 0]
            ELSE [Width |-> max(f[i - 1].Width, Right(rects[i]) + pk.Padding),
                  Height |-> max(f[i - 1].Height, Bottom(rects[i]) + pk.Padding)]
    IN  f[Len(rects)]

\* Packer.Insert returning, offline, the sizes it was given instead of the
\* staging list.
Packer_Insert_returnsArgs(heuristic, pk, sizes) ==
    IF pk.Online
    THEN LET Result(r) == [pk |-> [pk EXCEPT !.algo = r.p], ret |-> r.sizes]
         IN  Result(algo_Insert(heuristic, pk.algo, pk.Padding, sizes))
    ELSE [pk |-> [pk EXCEPT !.unpacked = pk.unpacked \o sizes], ret |-> sizes]

\* Packer.Insert: [pk, ret]; ret is the returned slice.
Packer_Insert(heuristic, pk, sizes) ==
    IF pk.Online
    THEN LET Result(r) == [pk |-> [pk EXCEPT !.algo = r.p], ret |-> r.sizes]
         IN  Result(algo_Insert(heuristic, pk.algo, pk.Padding, sizes))
    ELSE LET u == pk.unpacked \o sizes
         IN  [pk |-> [pk EXCEPT !.unpacked = u], ret |-> u]

\* Packer.InsertSize without the test of p.Online.
Packer_InsertSize_anyMode(heuristic, pk, id, width, height) ==
    LET Result(r) == [pk |-> r.pk, ret |-> Len(r.ret) = 0, result |-> r.ret]
    IN  Result(Packer_Insert(heuristic, pk, <<NewSizeID(id, width, height)>>))

\* Packer.InsertSize: [pk, ret, result]; ret is the returned boolean, result
\* the slice the Insert it calls returned.
Packer_InsertSize(heuristic, pk, id, width, height) ==
    LET Result(r) == [pk |-> r.pk, ret |-> ~(pk.Online /\ Len(r.ret) # 0),
                      result |-> r.ret]
    IN  Result(Packer_Insert(heuristic, pk, <<NewSizeID(id, width, height)>>))

\* Packer.Clear resetting the fields of algorithmBase only, not the free-space
\* structure of the algorithm.
Packer_Clear_baseOnly(heuristic, pk) ==
    LET size == MaxSize(pk)
    IN  [pk EXCEPT !.algo = algorithmBase_Reset(pk.algo, size.Width, size.Height),
                   !.unpacked = <<>>]

Packer_Clear(heuristic, pk) ==
    LET size == MaxSize(pk)
    IN  [pk EXCEPT !.algo = algo_Reset(heuristic, pk.algo, size.Width, size.Height),
                   !.unpacked = <<>>]

\* Packer.Pack truncating the staging list whether or not sizes failed.
Packer_Pack_dropsFailed(heuristic, pk) ==
    IF Len(pk.unpacked) = 0 THEN [pk |-> pk, ret |-> TRUE]
    ELSE LET Result(r) == [pk |-> [pk EXCEPT !.algo = r.p, !.unpacked = <<>>],
                           ret |-> Len(r.sizes) = 0]
         IN  Result(algo_Insert(heuristic, pk.algo, pk.Padding, PackOrder(pk)))

\* Packer.Pack leaving the sorted staging list as it is when sizes failed.
Packer_Pack_keepsStaged(heuristic, pk) ==
    IF Len(pk.unpacked) = 0 THEN [pk |-> pk, ret |-> TRUE]
    ELSE LET Result(r) == [pk |-> [pk EXCEPT !.algo = r.p,
                                             !.unpacked = IF Len(r.sizes) = 0 THEN <<>>
                                                          ELSE PackOrder(pk)],
                           ret |-> Len(r.sizes) = 0]
         IN  Result(algo_Insert(heuristic, pk.algo, pk.Padding, PackOrder(pk)))

\* Packer.Pack never truncating the staging list: the sizes it has packed
\* stay staged.
Packer_Pack_keepsPacked(heuristic, pk) ==
    IF Len(pk.unpacked) = 0 THEN [pk |-> pk, ret |-> TRUE]
    ELSE LET Result(r) == [pk |-> [pk EXCEPT !.algo = r.p, !.unpacked = PackOrder(pk)],
                           ret |-> Len(r.sizes) = 0]
         IN  Result(algo_Insert(heuristic, pk.algo, pk.Padding, PackOrder(pk)))

\* Packer.Pack: [pk, ret]; ret is the returned boolean.
Packer_Pack(heuristic, pk) ==
    IF Len(pk.unpacked) = 0 THEN [pk |-> pk, ret |-> TRUE]
    ELSE LET Result(r) == [pk |-> [pk EXCEPT !.algo = r.p, !.unpacked = r.sizes],
                           ret |-> Len(r.sizes) = 0]
         IN  Result(algo_Insert(heuristic, pk.algo, pk.Padding, PackOrder(pk)))

\* Packer.RepackAll resetting the algorithm to the maximum extents it has,
\* not to Size().
Packer_RepackAll_keepsBin(heuristic, pk) ==
    LET rects == Rects(pk)
        staged == [pk EXCEPT !.unpacked = @ \o [i \in 1..Len(rects) |-> SizeOf(rects[i])]]
        size == Packer_Size(pk)
        Result(r) == [pk |-> r.pk, ret |-> r.ret, panic |-> FALSE]
    IN  IF ResetPanics(size.Width, size.Height)
        THEN [pk |-> staged, ret |-> FALSE, panic |-> TRUE]
        ELSE Result(Packer_Pack(heuristic,
                        [staged EXCEPT !.algo =
                            algo_Reset(heuristic, pk.algo,
                                       MaxSize(pk).Width, MaxSize(pk).Height)]))

\* Packer.RepackAll: [pk, ret, panic]; panic when the algorithm's Reset
\* panics, which leaves the sizes already appended to unpacked.
Packer_RepackAll(heuristic, pk) ==
    LET rects == Rects(pk)
        staged == [pk EXCEPT !.unpacked = @ \o [i \in 1..Len(rects) |-> SizeOf(rects[i])]]
        size == Packer_Size(pk)
        Result(r) == [pk |-> r.pk, ret |-> r.ret, panic |-> FALSE]
    IN  IF ResetPanics(size.Width, size.Height)
        THEN [pk |-> staged, ret |-> FALSE, panic |-> TRUE]
        ELSE Result(Packer_Pack(heuristic,
                        [staged EXCEPT !.algo =
                            algo_Reset(heuristic, pk.algo, size.Width, size.Height)]))

\* The Insert of the algorithm panics on the batch: only the walk of Skyline
\* indexes a slice without a test of the index.
algo_InsertPanics(heuristic, p, padding, sizes) ==
    /\ Algorithm(heuristic) = Skyline
    /\ skylinePack_InsertPanics(heuristic, p, padding, sizes)

\* Packer.InsertSize(id, width, height) panics inside the algorithm.
Packer_InsertSizePanics(heuristic, pk, id, width, height) ==
    /\ pk.Online
    /\ algo_InsertPanics(heuristic, pk.algo, pk.Padding, <<NewSizeID(id, width, height)>>)

\* Packer.Pack panics inside the algorithm.
Packer_PackPanics(heuristic, pk) ==
    /\ Len(pk.unpacked) # 0
    /\ algo_InsertPanics(heuristic, pk.algo, pk.Padding, PackOrder(pk))

\* Packer.RepackAll panics inside the Pack it ends with.
Packer_RepackAllPanics(heuristic, pk) ==
    LET rects == Rects(pk)
        staged == [pk EXCEPT !.unpacked = @ \o [i \in 1..Len(rects) |-> SizeOf(rects[i])]]
        size == Packer_Size(pk)
    IN  /\ ~ResetPanics(size.Width, size.Height)
        /\ Packer_PackPanics(heuristic,
               [staged EXCEPT !.algo =
                   algo_Reset(heuristic, pk.algo, size.Width, size.Height)])

Packer_AllowFlip(pk, enabled) == [pk EXCEPT !.algo.allowFlip = enabled]

Packer_Sorter(pk, compare, reverse) ==
    [pk EXCEPT !.sortFunc = compare, !.sortRev = reverse]

(***************************************************************************)
(* The state machine.                                                      *)
(***************************************************************************)
VARIABLES
    heuristic,    \* the heuristic given to NewPacker
    packer,       \* the Packer
    inserted,     \* history: the sizes passed to Insert since construction or the last Clear
    returned,     \* history: the IDs an online Insert handed back since then
    nextID,       \* history: the ID the caller gives the next size
    repacks,      \* history: the number of RepackAll calls so far
    reconfigs,    \* history: setting changes made after the first packing operation
    op,           \* history: the last packing operation called
    retBool,      \* history: the boolean that operation returned
    retSizes,     \* history: the slice the Insert inside the last InsertSize returned
    panicked,     \* the last operation ended in a panic
    args,         \* the arguments of a call of a function that needs no packer
    result        \* what that call returned

vars == <<heuristic, packer, inserted, returned, nextID, repacks, reconfigs, op, retBool,
          retSizes, panicked, args, result>>

\* The heuristics the model constructs packers with: every bin-fit of each
\* algorithm, and every split of Guillotine.
Heuristics ==
    {MaxRects + BestShortSideFit, MaxRects + BottomLeft, MaxRects + ContactPoint,
     MaxRects + BestLongSideFit, MaxRects + BestAreaFit,
     Skyline + BottomLeft, Skyline + MinWaste,
     Guillotine + BestAreaFit + SplitShorterLeftoverAxis,
     Guillotine + BestShortSideFit + SplitLongerLeftoverAxis,
     Guillotine + BestLongSideFit + SplitMinimizeArea,
     Guillotine + WorstAreaFit + SplitMaximizeArea,
     Guillotine + WorstShortSideFit + SplitShorterAxis,
     Guillotine + WorstLongSideFit + SplitLongerAxis}

SortFuncs == {"SortArea", "nil"}

Dims == 1..MaxDim

\* Settings are changed after the first packing operation only in a packer
\* that has been given fewer than MaxInserted sizes, and such a packer is
\* given MaxInserted - 1 sizes at most.
InsertBudget == IF reconfigs > 0 THEN MaxInserted - 1 ELSE MaxInserted

Init ==
    /\ heuristic \in Heuristics
    /\ packer = NewPacker(BinWidth, BinHeight, heuristic)
    /\ inserted = <<>>
    /\ returned = {}
    /\ nextID = 1
    /\ repacks = 0
    /\ reconfigs = 0
    /\ op = "NewPacker"
    /\ retBool = TRUE
    /\ retSizes = <<>>
    /\ panicked = NewPackerPanics(BinWidth, BinHeight, heuristic)
    /\ args = <<>>
    /\ result = <<>>

\* InsertSize(nextID, w, h), that is Insert(NewSizeID(nextID, w, h)) and the
\* boolean made of what it returns.
InsertSize ==
    /\ ~panicked
    /\ nextID <= InsertBudget
    /\ op' = "InsertSize"
    /\ nextID' = nextID + 1
    /\ \E w \in Dims, h \in Dims :
         /\ inserted' = Append(inserted, NewSizeID(nextID, w, h))
         /\ \E r \in {Packer_InsertSize(heuristic, packer, nextID, w, h)} :
                /\ packer' = r.pk
                /\ retBool' = r.ret
                /\ retSizes' = r.result
                /\ returned' = IF packer.Online
                               THEN returned \cup {r.result[i].ID : i \in 1..Len(r.result)}
                               ELSE returned
    /\ UNCHANGED <<heuristic, repacks, reconfigs, panicked,
                   args, result>>

Pack ==
    /\ ~panicked
    /\ op' = "Pack"
    /\ retSizes' = <<>>
    /\ \E r \in {Packer_Pack(heuristic, packer)} :
           /\ packer' = r.pk
           /\ retBool' = r.ret
    /\ UNCHANGED <<heuristic, inserted, returned, nextID, repacks, reconfigs, panicked,
                   args, result>>

RepackAll ==
    /\ ~panicked
    /\ repacks < MaxRepacks
    /\ op' = "RepackAll"
    /\ repacks' = repacks + 1
    /\ retSizes' = <<>>
    /\ \E r \in {Packer_RepackAll(heuristic, packer)} :
           /\ packer' = r.pk
           /\ retBool' = r.ret
           /\ panicked' = r.panic
    /\ UNCHANGED <<heuristic, inserted, returned, nextID, reconfigs,
                   args, result>>

Clear ==
    /\ ~panicked
    /\ op' = "Clear"
    /\ inserted' = <<>>
    /\ returned' = {}
    /\ retBool' = TRUE
    /\ retSizes' = <<>>
    /\ packer' = Packer_Clear(heuristic, packer)
    /\ UNCHANGED <<heuristic, nextID, repacks, reconfigs, panicked,
                   args, result>>

\* A setter called with a new value; the setters leave the history of the
\* last packing operation as it is.
Configure(pk) ==
    /\ ~panicked
    /\ pk # packer
    /\ op = "NewPacker" \/ (nextID <= MaxInserted /\ reconfigs < MaxReconfigs)
    /\ packer' = pk
    /\ reconfigs' = IF op = "NewPacker" THEN reconfigs ELSE reconfigs + 1
    /\ UNCHANGED <<heuristic, inserted, returned, nextID, repacks, op, retBool, retSizes,
                   panicked,
                   args, result>>

AllowFlip == \E enabled \in BOOLEAN : Configure(Packer_AllowFlip(packer, enabled))

Sorter ==
    \E compare \in SortFuncs, reverse \in BOOLEAN :
        Configure(Packer_Sorter(packer, compare, reverse))

\* p.Padding = padding
SetPadding == \E padding \in 0..MaxPadding : Configure([packer EXCEPT !.Padding = padding])

\* p.Online = online
SetOnline == \E online \in BOOLEAN : Configure([packer EXCEPT !.Online = online])

Next ==
    \/ InsertSize
    \/ Pack
    \/ RepackAll
    \/ Clear
    \/ AllowFlip
    \/ Sorter
    \/ SetPadding
    \/ SetOnline

Spec == Init /\ [][Next]_vars

(***************************************************************************)
(* Heuristic.Validate, applied to every heuristic of the three bit fields. *)
(***************************************************************************)
\* Heuristic.Validate: "nil" or the error it returns.
Validate(e) ==
    LET bin == Bin(e)
        split == Split(e)
    IN  CASE Algorithm(e) = MaxRects ->
                 IF split # 0 THEN "splitErr"
                 ELSE IF bin \in {BestShortSideFit, BestAreaFit, BottomLeft,
                                  ContactPoint, BestLongSideFit}
                      THEN "nil" ELSE "binErr"
          [] Algorithm(e) = Skyline ->
                 IF split # 0 THEN "splitErr"
                 ELSE IF bin \in {BottomLeft, MinWaste} THEN "nil" ELSE "binErr"
          [] Algorithm(e) = Guillotine ->
                 IF split \notin {SplitShorterLeftoverAxis, SplitLongerLeftoverAxis,
                                  SplitMinimizeArea, SplitMaximizeArea,
                                  SplitShorterAxis, SplitLongerAxis}
                 THEN "splitErr"
                 ELSE IF bin \in {BestShortSideFit, BottomLeft, ContactPoint,
                                  BestLongSideFit, BestAreaFit}
                      THEN "nil" ELSE "splitErr"
          [] OTHER -> "algoErr"

\* The named presets.
Presets ==
    {MaxRects + BestShortSideFit, MaxRects + BottomLeft, MaxRects + ContactPoint,
     MaxRects + BestLongSideFit, MaxRects + BestAreaFit,
     Guillotine + BestAreaFit, Guillotine + BestShortSideFit,
     Guillotine + BestLongSideFit, Guillotine + WorstAreaFit,
     Guillotine + WorstShortSideFit, Guillotine + WorstLongSideFit,
     Skyline + BottomLeft, Skyline + MinWaste}

\* Every value of the algorithm, bin-fit and split fields.
AllHeuristics == 0..(typeMask + fitMask + splitMask)

\* No packer has been constructed.
NoPacker == <<>>

InitValidate ==
    /\ heuristic \in AllHeuristics
    /\ packer = NoPacker
    /\ inserted = <<>>
    /\ returned = {}
    /\ nextID = 1
    /\ repacks = 0
    /\ reconfigs = 0
    /\ op = "Heuristic"
    /\ retBool = TRUE
    /\ retSizes = <<>>
    /\ panicked = FALSE
    /\ args = <<>>
    /\ result = <<>>

\* err := heuristic.Validate(); retBool is err == nil.
CallValidate ==
    /\ op = "Heuristic"
    /\ op' = "Validate"
    /\ retBool' = (Validate(heuristic) = "nil")
    /\ UNCHANGED <<heuristic, packer, inserted, returned, nextID, repacks, reconfigs,
                   retSizes, panicked,
                   args, result>>

NextValidate == CallValidate

SpecValidate == InitValidate /\ [][NextValidate]_vars

(***************************************************************************)
(* NewRectLTRB, applied to every four coordinates of the bounded range.    *)
(***************************************************************************)
Coords == (0 - MaxCoord)..MaxCoord

InitLTRB ==
    /\ heuristic = MaxRects + BestShortSideFit
    /\ packer = NoPacker
    /\ inserted = <<>>
    /\ returned = {}
    /\ nextID = 1
    /\ repacks = 0
    /\ reconfigs = 0
    /\ op = "Args"
    /\ retBool = TRUE
    /\ retSizes = <<>>
    /\ panicked = FALSE
    /\ args \in Coords \X Coords \X Coords \X Coords
    /\ result = <<>>

\* result := NewRectLTRB(l, t, r, b)
CallNewRectLTRB ==
    /\ op = "Args"
    /\ op' = "NewRectLTRB"
    /\ result' = NewRectLTRB(args[1], args[2], args[3], args[4])
    /\ UNCHANGED <<heuristic, packer, inserted, returned, nextID, repacks, reconfigs,
                   retBool, retSizes, panicked, args>>

NextLTRB == CallNewRectLTRB

SpecLTRB == InitLTRB /\ [][NextLTRB]_vars

(***************************************************************************)
(* Packers constructed with a bin-fit that is not valid for the algorithm. *)
(***************************************************************************)
InvalidFitHeuristics ==
    {MaxRects + WorstAreaFit, MaxRects + MinWaste,
     Skyline + BestShortSideFit, Skyline + ContactPoint,
     Guillotine + MinWaste + SplitLongerLeftoverAxis}

InitFallback ==
    /\ heuristic \in InvalidFitHeuristics
    /\ packer = NewPacker(BinWidth, BinHeight, heuristic)
    /\ inserted = <<>>
    /\ returned = {}
    /\ nextID = 1
    /\ repacks = 0
    /\ reconfigs = 0
    /\ op = "NewPacker"
    /\ retBool = TRUE
    /\ retSizes = <<>>
    /\ panicked = NewPackerPanics(BinWidth, BinHeight, heuristic)
    /\ args = <<>>
    /\ result = <<>>

SpecFallback == InitFallback /\ [][Next]_vars

(***************************************************************************)
(* MaxRects packers whose Padding ranges over 0..MaxWidePadding.           *)
(***************************************************************************)
MaxRectsHeuristics == {h \in Heuristics : Algorithm(h) = MaxRects}

InitWidePadding ==
    /\ heuristic \in MaxRectsHeuristics
    /\ packer = NewPacker(BinWidth, BinHeight, heuristic)
    /\ inserted = <<>>
    /\ returned = {}
    /\ nextID = 1
    /\ repacks = 0
    /\ reconfigs = 0
    /\ op = "NewPacker"
    /\ retBool = TRUE
    /\ retSizes = <<>>
    /\ panicked = NewPackerPanics(BinWidth, BinHeight, heuristic)
    /\ args = <<>>
    /\ result = <<>>

\* p.Padding = padding
SetWidePadding ==
    \E padding \in 0..MaxWidePadding : Configure([packer EXCEPT !.Padding = padding])

NextWidePadding ==
    \/ InsertSize
    \/ Pack
    \/ RepackAll
    \/ Clear
    \/ AllowFlip
    \/ Sorter
    \/ SetWidePadding
    \/ SetOnline

SpecWidePadding == InitWidePadding /\ [][NextWidePadding]_vars

(***************************************************************************)
(* Skyline packers whose Padding ranges over 0..MaxWidePadding.  The walk  *)
(* of testFit can leave the skyline there, so the packing operations are   *)
(* given with the panic of that walk.                                      *)
(***************************************************************************)
SkylineHeuristics == {h \in Heuristics : Algorithm(h) = Skyline}

InitSkylineWalk ==
    /\ heuristic \in SkylineHeuristics
    /\ packer = NewPacker(BinWidth, BinHeight, heuristic)
    /\ inserted = <<>>
    /\ returned = {}
    /\ nextID = 1
    /\ repacks = 0
    /\ reconfigs = 0
    /\ op = "NewPacker"
    /\ retBool = TRUE
    /\ retSizes = <<>>
    /\ panicked = NewPackerPanics(BinWidth, BinHeight, heuristic)
    /\ args = <<>>
    /\ result = <<>>

\* InsertSize(nextID, w, h); when the algorithm panics the call does not
\* return and the packer is used no more: its fields are kept as they were.
InsertSizeOrPanic ==
    /\ ~panicked
    /\ nextID <= InsertBudget
    /\ op' = "InsertSize"
    /\ nextID' = nextID + 1
    /\ \E w \in Dims, h \in Dims :
         /\ inserted' = Append(inserted, NewSizeID(nextID, w, h))
         /\ IF Packer_InsertSizePanics(heuristic, packer, nextID, w, h)
            THEN /\ panicked' = TRUE
                 /\ UNCHANGED <<packer, retBool, retSizes, returned>>
            ELSE /\ panicked' = FALSE
                 /\ \E r \in {Packer_InsertSize(heuristic, packer, nextID, w, h)} :
                        /\ packer' = r.pk
                        /\ retBool' = r.ret
                        /\ retSizes' = r.result
                        /\ returned' =
                               IF packer.Online
                               THEN returned \cup {r.result[i].ID : i \in 1..Len(r.result)}
                               ELSE returned
    /\ UNCHANGED <<heuristic, repacks, reconfigs, args, result>>

PackOrPanic ==
    /\ ~panicked
    /\ op' = "Pack"
    /\ IF Packer_PackPanics(heuristic, packer)
       THEN /\ panicked' = TRUE
            /\ UNCHANGED <<packer, retBool, retSizes>>
       ELSE /\ panicked' = FALSE
            /\ retSizes' = <<>>
            /\ \E r \in {Packer_Pack(heuristic, packer)} :
                   /\ packer' = r.pk
                   /\ retBool' = r.ret
    /\ UNCHANGED <<heuristic, inserted, returned, nextID, repacks, reconfigs,
                   args, result>>

RepackAllOrPanic ==
    /\ ~panicked
    /\ repacks < MaxRepacks
    /\ op' = "RepackAll"
    /\ repacks' = repacks + 1
    /\ IF Packer_RepackAllPanics(heuristic, packer)
       THEN /\ panicked' = TRUE
            /\ UNCHANGED <<packer, retBool, retSizes>>
       ELSE /\ retSizes' = <<>>
            /\ \E r \in {Packer_RepackAll(heuristic, packer)} :
                   /\ packer' = r.pk
                   /\ retBool' = r.ret
                   /\ panicked' = r.panic
    /\ UNCHANGED <<heuristic, inserted, returned, nextID, reconfigs,
                   args, result>>

NextSkylineWalk ==
    \/ InsertSizeOrPanic
    \/ PackOrPanic
    \/ RepackAllOrPanic
    \/ Clear
    \/ AllowFlip
    \/ Sorter
    \/ SetWidePadding
    \/ SetOnline

SpecSkylineWalk == InitSkylineWalk /\ [][NextSkylineWalk]_vars

(***************************************************************************)
(* Properties.                                                             *)
(***************************************************************************)
IDs(seq) == {seq[i].ID : i \in 1..Len(seq)}

\* The two rectangles share a region of positive area.
Overlap(a, b) ==
    /\ max(a.X, b.X) < min(a.X + a.Width, b.X + b.Width)
    /\ max(a.Y, b.Y) < min(a.Y + a.Height, b.Y + b.Height)

C2_InBounds ==
    \A i \in 1..Len(Rects(packer)) :
        LET r == Rects(packer)[i]
        IN  /\ 0 <= r.X
            /\ 0 <= r.Y
            /\ r.X + r.Width <= packer.algo.maxWidth
            /\ r.Y + r.Height <= packer.algo.maxHeight

\* The inserted sizes that carry the ID of the rectangle r.
InsertedAs(r) == {k \in 1..Len(inserted) : inserted[k].ID = r.ID}

\* C3: every packed rectangle r has exactly one inserted size s with its ID,
\* and r's Width and Height are those of s, in that order when r is not
\* flipped and in either order when it is, whatever the padding.
C3_Preservation ==
    \A i \in 1..Len(Rects(packer)) :
        LET r == Rects(packer)[i]
        IN  /\ Cardinality(InsertedAs(r)) = 1
            /\ \A k \in InsertedAs(r) :
                   LET s == inserted[k]
                   IN  \/ r.Width = s.Width /\ r.Height = s.Height
                       \/ r.Flipped /\ r.Width = s.Height /\ r.Height = s.Width

\* The number of elements of seq that carry the ID id.
CountID(seq, id) == Cardinality({i \in 1..Len(seq) : seq[i].ID = id})

\* C4: while no online Insert has handed a size back to the caller (offline
\* mode), after calls that all returned, and since the last Clear, the packed
\* and the staged sizes together are the inserted ones: equal in number, each
\* ID as often as inserted.
C4_Conservation ==
    returned = {} /\ ~panicked =>
        /\ Len(Rects(packer)) + Len(Unpacked(packer)) = Len(inserted)
        /\ \A id \in 1..MaxInserted :
               CountID(Rects(packer), id) + CountID(Unpacked(packer), id)
                   = CountID(inserted, id)

\* A RepackAll of an offline packer has returned with some of the inserted
\* sizes packed and the others staged.
C4_RepackedPartly ==
    /\ op = "RepackAll" /\ ~panicked /\ returned = {}
    /\ Len(inserted) = MaxInserted
    /\ Len(Rects(packer)) >= 1
    /\ Len(Unpacked(packer)) >= 1

\* The elements of a sequence, as a set.
Range(seq) == {seq[i] : i \in 1..Len(seq)}

\* C5: Pack returns true iff the staging list is empty on return; the sizes
\* it did not place stay staged, the ones it placed are added to Rects() and
\* nothing else is; with an empty staging list it returns true and changes
\* nothing.
C5_PackResult ==
    [][Pack =>
        /\ retBool' = (Unpacked(packer') = <<>>)
        /\ Range(Unpacked(packer')) \subseteq Range(Unpacked(packer))
        /\ Len(Rects(packer')) >= Len(Rects(packer))
        /\ SubSeq(Rects(packer'), 1, Len(Rects(packer))) = Rects(packer)
        /\ IDs(Rects(packer')) \ IDs(Rects(packer))
               = IDs(Unpacked(packer)) \ IDs(Unpacked(packer'))
        /\ Len(Rects(packer')) + Len(Unpacked(packer'))
               = Len(Rects(packer)) + Len(Unpacked(packer))
        /\ (Unpacked(packer) = <<>> => retBool' /\ packer' = packer)]_vars

\* Pack has returned false, having placed some of the staged sizes.
C5_PackedSome ==
    /\ op = "Pack" /\ ~retBool
    /\ Len(Rects(packer)) >= 1
    /\ Len(Unpacked(packer)) >= 1

\* C6: an offline Insert appends the size to the staging list, returns the
\* whole staging list and leaves the algorithm (packed rectangles, used area,
\* free-space structure) as it was.
C6_OfflineInsert ==
    [][InsertSize /\ ~packer.Online =>
        /\ Unpacked(packer') = Append(Unpacked(packer), inserted'[Len(inserted')])
        /\ retSizes' = Unpacked(packer')
        /\ packer'.algo = packer.algo]_vars

\* An offline Insert has returned a staging list of two sizes or more in a
\* packer that holds packed rectangles.
C6_StagedMore ==
    /\ op = "InsertSize" /\ ~packer.Online
    /\ retSizes = Unpacked(packer)
    /\ Len(Unpacked(packer)) >= 2
    /\ Len(Rects(packer)) >= 1

\* C7: an online Insert places the size at once or returns it, and leaves the
\* staging list unchanged; InsertSize returns false exactly when the packer
\* is online and the size was not placed.
C7_OnlineInsert ==
    [][InsertSize =>
        LET s == inserted'[Len(inserted')]
            placed == s.ID \in IDs(Rects(packer'))
        IN  IF packer.Online
            THEN /\ Unpacked(packer') = Unpacked(packer)
                 /\ retSizes' = IF placed THEN <<>> ELSE <<s>>
                 /\ retBool' = placed
                 /\ Len(Rects(packer')) = Len(Rects(packer)) + (IF placed THEN 1 ELSE 0)
                 /\ SubSeq(Rects(packer'), 1, Len(Rects(packer))) = Rects(packer)
            ELSE retBool' = TRUE /\ ~placed]_vars

\* An online InsertSize has returned false and handed the size back, in a
\* packer that holds packed rectangles.
C7_HandedBack ==
    /\ op = "InsertSize" /\ packer.Online
    /\ ~retBool
    /\ Len(retSizes) = 1
    /\ Len(Rects(packer)) >= 1

\* C8: Clear leaves the packer as NewPacker made it for the extents given at
\* construction (nothing packed or staged, used area 0, the initial
\* free-space structure), with the flip, padding, sorter and online settings
\* it had.
C8_ClearResets ==
    [][Clear =>
        packer' = [NewPacker(BinWidth, BinHeight, heuristic) EXCEPT
                       !.algo.allowFlip = packer.algo.allowFlip,
                       !.Padding = packer.Padding,
                       !.sortFunc = packer.sortFunc,
                       !.sortRev = packer.sortRev,
                       !.Online = packer.Online]]_vars

\* Clear(); Insert(sizes); Pack() on the packer pk.
Replay(pk, sizes) ==
    Packer_Pack(heuristic, Packer_Insert(heuristic, Packer_Clear(heuristic, pk), sizes).pk)

\* C9: when Pack has packed the staged sizes S into an empty offline packer,
\* Clear(); Insert(S); Pack() gives the same packed rectangles, the same
\* staged remainder and the same result again.
C9_ClearReplay ==
    [][Pack /\ Rects(packer) = <<>> /\ ~packer.Online =>
        LET again == Replay(packer', Unpacked(packer))
        IN  /\ Rects(again.pk) = Rects(packer')
            /\ Unpacked(again.pk) = Unpacked(packer')
            /\ again.ret = retBool']_vars

\* Pack has packed two or more of the sizes inserted into an offline packer,
\* and Clear(); Insert(inserted); Pack() packs the same rectangles.
C9_Replayed ==
    /\ op = "Pack" /\ ~packer.Online /\ repacks = 0 /\ reconfigs = 0
    /\ Len(inserted) = MaxInserted
    /\ Len(Rects(packer)) >= 2
    /\ Rects(Replay(packer, inserted).pk) = Rects(packer)

\* C10: a RepackAll called with at least one packed rectangle leaves at least
\* as many packed rectangles as it found.
C10_RepackAllKeeps ==
    [][RepackAll /\ Len(Rects(packer)) >= 1 =>
        Len(Rects(packer')) >= Len(Rects(packer))]_vars

\* C11: a RepackAll that returns has appended the Size (Width, Height, ID) of
\* every packed rectangle to the staging list, reset the algorithm to the
\* extents Size() gave before the reset, and returned what Pack returned on
\* that packer; afterwards MaxSize is that bounding size.  Reset panics
\* exactly when that size has a dimension <= 0, and the sizes are then
\* already staged.
C11_RepackAllSteps ==
    [][RepackAll =>
        LET size == Packer_Size(packer)
            staged == Unpacked(packer)
                        \o [i \in 1..Len(Rects(packer)) |-> SizeOf(Rects(packer)[i])]
        IN  /\ panicked' = (size.Width <= 0 \/ size.Height <= 0)
            /\ panicked' => Unpacked(packer') = staged /\ packer'.algo = packer.algo
            /\ ~panicked' =>
                 /\ MaxSize(packer') = size
                 /\ \E r \in {Packer_Pack(heuristic,
                                 [packer EXCEPT
                                     !.unpacked = staged,
                                     !.algo = algo_Reset(heuristic, packer.algo,
                                                         size.Width, size.Height)])} :
                        packer' = r.pk /\ retBool' = r.ret
                 /\ IDs(Rects(packer')) \cup IDs(Unpacked(packer')) = IDs(staged)]_vars

\* A RepackAll has returned true with two or more rectangles packed in a bin
\* smaller than the one given at construction.
C11_Repacked ==
    /\ op = "RepackAll" /\ ~panicked /\ retBool
    /\ Len(Rects(packer)) >= 2
    /\ MaxSize(packer) # [Width |-> BinWidth, Height |-> BinHeight]
    /\ MaxSize(packer) = Packer_Size(packer)

\* The greatest element of a non-empty set of integers.
Greatest(S) == CHOOSE x \in S : \A y \in S : y <= x

\* C12: in every reachable state Size() is {0, 0} when nothing is packed and
\* otherwise Width = the greatest Right() + Padding and Height = the greatest
\* Bottom() + Padding over the packed rectangles; and Pack on a packer into
\* which nothing was inserted returns true and leaves Rects() empty.
C12_Size ==
    /\ [](LET rects == Rects(packer)
              size == Packer_Size(packer)
          IN  IF rects = <<>> THEN size = [Width |-> 0, Height |-> 0]
              ELSE /\ size.Width = Greatest({Right(rects[i]) + packer.Padding :
                                                i \in 1..Len(rects)})
                   /\ size.Height = Greatest({Bottom(rects[i]) + packer.Padding :
                                                 i \in 1..Len(rects)}))
    /\ [][Pack /\ nextID = 1 => retBool' /\ Rects(packer') = <<>>]_vars

\* The sum of Width * Height over a sequence of sizes or rectangles.
SumArea(seq) ==
    LET f[i \in 0..Len(seq)] == IF i = 0 THEN 0 ELSE f[i - 1] + Area(seq[i])
    IN  f[Len(seq)]

\* The element of seq that carries the ID id.
WithID(seq, id) == seq[CHOOSE i \in 1..Len(seq) : seq[i].ID = id]

\* The area of the rectangle an algorithm commits for the size s, before
\* unpadRect: MaxRects and Skyline place the padded size, Guillotine builds
\* its node from the size as staged.
CommittedArea(s, padding) ==
    IF Algorithm(heuristic) = Guillotine THEN Area(s) ELSE Area(padSize(s, padding))

\* The sum of the committed areas of the rectangles `new`, placed from the
\* sizes `source`.
SumCommitted(new, source, padding) ==
    LET f[i \in 0..Len(new)] ==
            IF i = 0 THEN 0
            ELSE f[i - 1] + CommittedArea(WithID(source, new[i].ID), padding)
    IN  f[Len(new)]

\* The rectangles a step has appended to Rects().
NewRects == SubSeq(Rects(packer'), Len(Rects(packer)) + 1, Len(Rects(packer')))

\* C13: UsedArea grows, with every rectangle an operation packs, by the
\* Width * Height of that rectangle as committed before its padding is
\* stripped, and with padding 0 by the Width * Height it has in Rects(); it
\* starts again from 0 in the Reset of RepackAll and is 0 after Clear.
C13_UsedArea ==
    [][/\ (Pack \/ InsertSize) =>
             LET source == IF op' = "InsertSize" THEN <<inserted'[Len(inserted')]>>
                           ELSE Unpacked(packer)
             IN  /\ packer'.algo.usedArea
                        = packer.algo.usedArea
                            + SumCommitted(NewRects, source, packer.Padding)
                 /\ packer.Padding = 0 =>
                        packer'.algo.usedArea = packer.algo.usedArea + SumArea(NewRects)
       /\ (RepackAll /\ ~panicked') =>
             LET source == Unpacked(packer)
                             \o [i \in 1..Len(Rects(packer)) |-> SizeOf(Rects(packer)[i])]
             IN  /\ packer'.algo.usedArea
                        = SumCommitted(Rects(packer'), source, packer.Padding)
                 /\ packer.Padding = 0 =>
                        packer'.algo.usedArea = SumArea(Rects(packer'))
       /\ Clear => packer'.algo.usedArea = 0]_vars

\* A Pack with padding has packed two or more rectangles, and UsedArea is
\* greater than the area of the rectangles in Rects().
C13_PaddedArea ==
    /\ op = "Pack" /\ packer.Padding > 0
    /\ Len(Rects(packer)) >= 2
    /\ packer.algo.usedArea > SumArea(Rects(packer))

\* The rectangles a and b are at least p apart along the X or the Y axis.
Apart(a, b, p) ==
    \/ Right(a) + p <= b.X
    \/ Right(b) + p <= a.X
    \/ Bottom(a) + p <= b.Y
    \/ Bottom(b) + p <= a.Y

\* C14: with a padding p > 0 set before the first packing operation and not
\* changed since, after a Pack or an Insert any two distinct packed
\* rectangles are at least p apart along the X or the Y axis, and every
\* packed rectangle is at least p away from each of the four bin edges.
C14_PaddingGap ==
    (packer.Padding > 0 /\ reconfigs = 0 /\ op \in {"Pack", "InsertSize"}) =>
        /\ \A i, j \in 1..Len(Rects(packer)) :
               i < j => Apart(Rects(packer)[i], Rects(packer)[j], packer.Padding)
        /\ \A i \in 1..Len(Rects(packer)) :
               LET r == Rects(packer)[i]
               IN  /\ r.X >= packer.Padding
                   /\ r.Y >= packer.Padding
                   /\ Right(r) + packer.Padding <= packer.algo.maxWidth
                   /\ Bottom(r) + packer.Padding <= packer.algo.maxHeight

\* C15: with padding 0 and the settings unchanged since the first packing
\* operation, a packed rectangle placed from an inserted size s with
\* s.Width # s.Height has Flipped = TRUE iff its (Width, Height) is
\* (s.Height, s.Width), and no packed rectangle has Flipped = TRUE while
\* AllowFlip is disabled.
C15_FlippedIff ==
    (packer.Padding = 0 /\ reconfigs = 0) =>
        \A i \in 1..Len(Rects(packer)) :
            LET r == Rects(packer)[i]
            IN  /\ r.Flipped => packer.algo.allowFlip
                /\ \A k \in InsertedAs(r) :
                       LET s == inserted[k]
                       IN  s.Width # s.Height =>
                               (r.Flipped <=> (r.Width = s.Height /\ r.Height = s.Width))

\* The size s, padded by p, fits a bin W x H as given, or rotated.
FitsUpright(s, p, W, H) == s.Width + p <= W /\ s.Height + p <= H
FitsRotated(s, p, W, H) == s.Height + p <= W /\ s.Width + p <= H

\* What C16 states of the step that hands the single size s to the algorithm
\* of the empty packer.
SingleOutcome(s) ==
    LET p == packer.Padding
        W == packer.algo.maxWidth
        H == packer.algo.maxHeight
        upright == FitsUpright(s, p, W, H)
        rotated == packer.algo.allowFlip /\ FitsRotated(s, p, W, H)
        rects == Rects(packer')
    IN  /\ (Len(rects) = 1 /\ rects[1].ID = s.ID) <=> (upright \/ rotated)
        /\ Len(rects) = 0 <=> ~(upright \/ rotated)
        /\ (rotated /\ ~upright) =>
               /\ rects[1].Flipped
               /\ rects[1].Width = s.Height
               /\ rects[1].Height = s.Width
        /\ Len(rects) = 1 => packer'.algo.usedArea = CommittedArea(s, p)

\* C16: a single size w x h inserted into an empty bin W x H with padding p
\* is packed iff w + p <= W and h + p <= H, or AllowFlip is enabled and
\* h + p <= W and w + p <= H; when only the rotated orientation fits, the
\* packed rectangle has Flipped = TRUE and Width and Height swapped; the used
\* area is the same for w x h and h x w.
C16_SingleInsert ==
    [][/\ (InsertSize /\ packer.Online /\ Rects(packer) = <<>> /\ Unpacked(packer) = <<>>)
            => SingleOutcome(inserted'[Len(inserted')])
       /\ (Pack /\ Rects(packer) = <<>> /\ Len(Unpacked(packer)) = 1
                /\ Unpacked(packer)[1] \in Range(inserted))
            => SingleOutcome(Unpacked(packer)[1])]_vars

\* C19: the algorithm Reset reached through the packer fails exactly when
\* the width or the height it is given is <= 0 (the Reset of RepackAll, given
\* Size(); the Reset of Clear, given MaxSize(), never), and the step that
\* fails leaves Rects() and Unpacked() as they were.
C19_FatalFailures ==
    [][/\ RepackAll => (panicked' <=> ResetPanics(Packer_Size(packer).Width,
                                                   Packer_Size(packer).Height))
       /\ Clear => ~panicked'
       /\ panicked' => /\ Rects(packer') = Rects(packer)
                       /\ Unpacked(packer') = Unpacked(packer)]_vars

\* The number of positions of seq that hold x.
Occurrences(seq, x) == Cardinality({i \in 1..Len(seq) : seq[i] = x})

\* The sequences a and b hold the same elements the same number of times.
IsPermutation(a, b) ==
    /\ Len(a) = Len(b)
    /\ \A x \in Range(a) \cup Range(b) : Occurrences(a, x) = Occurrences(b, x)

ValidityMatrix(e) ==
    \/ /\ Algorithm(e) = MaxRects
       /\ Bin(e) \in {BestShortSideFit, BestLongSideFit, BestAreaFit, BottomLeft,
                      ContactPoint}
       /\ Split(e) = 0
    \/ /\ Algorithm(e) = Skyline
       /\ Bin(e) \in {BottomLeft, MinWaste}
       /\ Split(e) = 0
    \/ /\ Algorithm(e) = Guillotine
       /\ Bin(e) \in {BestShortSideFit, BestLongSideFit, BestAreaFit, WorstAreaFit,
                      WorstShortSideFit, WorstLongSideFit, BottomLeft, ContactPoint}
       /\ Split(e) \in {SplitShorterLeftoverAxis, SplitLongerLeftoverAxis,
                        SplitMinimizeArea, SplitMaximizeArea, SplitShorterAxis,
                        SplitLongerAxis}

\* C17: Validate returns nil exactly for the combinations of the validity
\* matrix, and for every named preset.
C17_ValidityMatrix ==
    op = "Validate" =>
        /\ retBool <=> ValidityMatrix(heuristic)
        /\ heuristic \in Presets => retBool

\* The bin-fit newMaxRects, newSkyline and newGuillotine fall back to, with
\* the algorithm and the split of the heuristic e.
DefaultFit(e) ==
    Algorithm(e) + Split(e)
        + (CASE Algorithm(e) = MaxRects -> BestShortSideFit
             [] Algorithm(e) = Skyline -> BottomLeft
             [] Algorithm(e) = Guillotine -> BestAreaFit)

\* C18: a packer built with a bin-fit that Validate rejects for its algorithm
\* is constructed without a panic, equal to the packer built with the
\* algorithm's default bin-fit, and every operation takes it to the packer,
\* and gives the result, that the operation of the default bin-fit's packer
\* gives from the same state: the two have the same Rects() and Unpacked()
\* after every sequence of operations.
C18_Fallback ==
    /\ [](/\ Validate(heuristic) # "nil"
          /\ ~NewPackerPanics(BinWidth, BinHeight, heuristic)
          /\ NewPacker(BinWidth, BinHeight, heuristic)
                 = NewPacker(BinWidth, BinHeight, DefaultFit(heuristic)))
    /\ [][/\ InsertSize =>
                \E r \in {Packer_InsertSize(DefaultFit(heuristic), packer, nextID,
                                            inserted'[Len(inserted')].Width,
                                            inserted'[Len(inserted')].Height)} :
                    packer' = r.pk /\ retBool' = r.ret /\ retSizes' = r.result
          /\ Pack =>
                \E r \in {Packer_Pack(DefaultFit(heuristic), packer)} :
                    packer' = r.pk /\ retBool' = r.ret
          /\ RepackAll =>
                \E r \in {Packer_RepackAll(DefaultFit(heuristic), packer)} :
                    packer' = r.pk /\ retBool' = r.ret /\ panicked' = r.panic
          /\ Clear => packer' = Packer_Clear(DefaultFit(heuristic), packer)]_vars

\* A MaxRects packer built with an invalid bin-fit has packed three
\* rectangles, one of them flipped, after a RepackAll.
C18_FallbackPacked ==
    /\ heuristic \in InvalidFitHeuristics
    /\ Algorithm(heuristic) = MaxRects
    /\ op = "RepackAll" /\ ~panicked /\ retBool
    /\ Len(Rects(packer)) = 3
    /\ \E i \in 1..3 : Rects(packer)[i].Flipped

\* C21: in a Skyline packer the skyline segments start at X = 0, abut without
\* gap or overlap in increasing X, all have Width > 0, end at maxWidth, and
\* no two adjacent segments have the same Y; after NewPacker and after Clear
\* the skyline is the single segment {0, 0, maxWidth}.
C21_Skyline ==
    Algorithm(heuristic) = Skyline =>
        LET sk == packer.algo.skyline
            n == Len(sk)
        IN  /\ n >= 1
            /\ sk[1].X = 0
            /\ \A i \in 1..n : sk[i].Width > 0
            /\ \A i \in 1..(n - 1) :
                   /\ sk[i].X + sk[i].Width = sk[i + 1].X
                   /\ sk[i].Y # sk[i + 1].Y
            /\ sk[n].X + sk[n].Width = packer.algo.maxWidth
            /\ op \in {"NewPacker", "Clear"} =>
                   sk = <<[X |-> 0, Y |-> 0, Width |-> packer.algo.maxWidth]>>

\* The rectangle r has positive extents and lies inside the bin of p.
InsideBin(r, p) ==
    /\ r.Width > 0 /\ r.Height > 0
    /\ r.X >= 0 /\ r.Y >= 0
    /\ Right(r) <= p.maxWidth /\ Bottom(r) <= p.maxHeight

\* C22: in a Guillotine packer every free rectangle is non-empty and lies
\* inside the bin, and no two free rectangles overlap; the merge pass leaves
\* such a list as it is, so the same holds with Merge disabled.
C22_FreeRects ==
    Algorithm(heuristic) = Guillotine =>
        LET fr == packer.algo.freeRects
        IN  /\ \A i \in 1..Len(fr) : InsideBin(fr[i], packer.algo)
            /\ \A i, j \in 1..Len(fr) : i < j => ~Overlap(fr[i], fr[j])
            /\ mergeFreeList(fr) = fr

\* C23: in a MaxRects packer, between operations, no free rectangle is
\* contained in another free rectangle of the list (so the list has no
\* duplicates), and the buffer of newly added free rectangles is empty.
C23_Pruned ==
    Algorithm(heuristic) = MaxRects =>
        LET fr == packer.algo.freeRects
        IN  /\ \A i, j \in 1..Len(fr) : i # j => ~ContainsRect(fr[j], fr[i])
            /\ packer.algo.newFreeRects = <<>>

\* A MaxRects packer has packed three rectangles and holds two or more free
\* rectangles that overlap each other.
C23_OverlappingFree ==
    /\ Algorithm(heuristic) = MaxRects
    /\ op \in {"Pack", "InsertSize"}
    /\ Len(Rects(packer)) = 3
    /\ \E i, j \in 1..Len(packer.algo.freeRects) :
           i < j /\ Overlap(packer.algo.freeRects[i], packer.algo.freeRects[j])

\* The unit cells (by their top-left corner) of the rectangle r.
Points(r) == (r.X..(r.X + r.Width - 1)) \X (r.Y..(r.Y + r.Height - 1))

\* The cells covered by some rectangle of seq.
CoveredBy(seq) == UNION {Points(seq[i]) : i \in 1..Len(seq)}

\* The cells of the bin of the algorithm p.
BinPoints(p) == (0..(p.maxWidth - 1)) \X (0..(p.maxHeight - 1))

\* C24: in a MaxRects packer the free rectangles cover exactly the bin cells
\* no placed footprint covers.  The footprints are the padded nodes, whose
\* areas add up to usedArea: the free rectangles lie in the bin and leave
\* usedArea cells uncovered; with padding 0 the uncovered cells are those of
\* Rects(); and a step that places one size takes exactly the cells of the
\* node it places out of the cover of the free rectangles.
C24_FreeCover ==
    /\ [](Algorithm(heuristic) = MaxRects =>
            LET free == CoveredBy(packer.algo.freeRects)
                bin == BinPoints(packer.algo)
            IN  /\ free \subseteq bin
                /\ Cardinality(bin \ free) = packer.algo.usedArea
                /\ (packer.Padding = 0 /\ reconfigs = 0) =>
                       bin \ free = CoveredBy(Rects(packer)))
    /\ [][(/\ Algorithm(heuristic) = MaxRects
           /\ \/ InsertSize /\ packer.Online
              \/ Pack /\ Len(Unpacked(packer)) = 1) =>
            LET size == IF op' = "Pack" THEN Unpacked(packer)[1]
                        ELSE inserted'[Len(inserted')]
                free == CoveredBy(packer.algo.freeRects)
            IN  \E best \in {maxRects_best(heuristic, packer.algo, packer.Padding,
                                           <<size>>)} :
                    CoveredBy(packer'.algo.freeRects) =
                        IF best.index = -1 THEN free
                        ELSE free \ Points(best.node)]_vars

\* C25: a Pack that follows a Pack with nothing in between leaves Rects()
\* unchanged and returns what that Pack returned: true with an empty staging
\* list after a success, false with the same multiset of unpacked sizes after
\* a failure.
C25_PackIdempotent ==
    [][Pack =>
        \E again \in {Packer_Pack(heuristic, packer')} :
            /\ Rects(again.pk) = Rects(packer')
            /\ again.ret = retBool'
            /\ retBool' => Unpacked(again.pk) = <<>>
            /\ IsPermutation(Unpacked(again.pk), Unpacked(packer'))
            /\ again.pk.algo = packer'.algo]_vars

\* A Pack has failed: it has packed two rectangles and left one size staged.
C25_FailedPack ==
    /\ op = "Pack" /\ ~retBool
    /\ Len(Rects(packer)) = 2
    /\ Len(Unpacked(packer)) = 1

\* C26: for l <= r and t <= b, NewRectLTRB(l, t, r, b) returns the rectangle
\* whose Left() is l, Top() is t, Right() is r and Bottom() is b.
C26_LTRB ==
    (op = "NewRectLTRB" /\ args[1] <= args[3] /\ args[2] <= args[4]) =>
        /\ Left(result) = args[1]
        /\ Top(result) = args[2]
        /\ Right(result) = args[3]
        /\ Bottom(result) = args[4]

\* The rectangles a and b share a full edge: same X and Width with abutting
\* Y ranges, or same Y and Height with abutting X ranges.
SharesFullEdge(a, b) ==
    \/ /\ a.X = b.X /\ a.Width = b.Width
       /\ (Bottom(a) = b.Y \/ Bottom(b) = a.Y)
    \/ /\ a.Y = b.Y /\ a.Height = b.Height
       /\ (Right(a) = b.X \/ Right(b) = a.X)

\* The free list of the Guillotine p after the commit of `size` at the
\* candidate `best`, as it is when the merge pass starts.
FreeListBeforeMerge(p, size, best) ==
    Delete(splitByHeuristic(heuristic, p.freeRects, p.freeRects[best.bestFreeRect + 1],
               guillotine_newNode(p.freeRects[best.bestFreeRect + 1], size,
                                  best.bestFlipped)),
           best.bestFreeRect)

\* C27: when a Guillotine packer commits one size, the merge pass that
\* follows the commit leaves the covered area unchanged and leaves no two of
\* the free rectangles it was given that share a full edge both in the list.
C27_MergePass ==
    [][(/\ Algorithm(heuristic) = Guillotine
        /\ packer.Padding = 0
        /\ \/ InsertSize /\ packer.Online
           \/ Pack /\ Len(Unpacked(packer)) = 1) =>
        LET size == IF op' = "Pack" THEN Unpacked(packer)[1]
                    ELSE inserted'[Len(inserted')]
        IN  \E best \in {guillotine_best(heuristic, packer.algo, packer.Padding,
                                         <<size>>)} :
                best.bestScore # MaxInt =>
                    \E pre \in {FreeListBeforeMerge(packer.algo, size, best)} :
                        LET post == packer'.algo.freeRects
                        IN  /\ CoveredBy(post) = CoveredBy(pre)
                            /\ \A i, j \in 1..Len(pre) :
                                   (i < j /\ SharesFullEdge(pre[i], pre[j])) =>
                                       ~(pre[i] \in Range(post) /\ pre[j] \in Range(post))]_vars

\* The width and the height of the size in the orientation of candidate c.
OrientedWidth(size, c) == IF c.flipped THEN size.Height ELSE size.Width
OrientedHeight(size, c) == IF c.flipped THEN size.Width ELSE size.Height

\* The (free rectangle, orientation) pairs of the Guillotine p in which the
\* size fits; the rotated orientation counts when flip is enabled.
FittingPairs(p, size) ==
    {c \in [i : 1..Len(p.freeRects), flipped : BOOLEAN] :
        /\ c.flipped => p.allowFlip
        /\ OrientedWidth(size, c) <= p.freeRects[c.i].Width
        /\ OrientedHeight(size, c) <= p.freeRects[c.i].Height}

\* The score of the pair c.
PairScore(p, size, c) ==
    guillotine_scoreRect(heuristic, OrientedWidth(size, c), OrientedHeight(size, c),
                         p.freeRects[c.i])

\* The pair c is an exact match of the free rectangle.
PerfectPair(p, size, c) ==
    /\ OrientedWidth(size, c) = p.freeRects[c.i].Width
    /\ OrientedHeight(size, c) = p.freeRects[c.i].Height

\* The step has committed the size as the pair c.
CommittedAs(p, size, c) ==
    /\ Len(Rects(packer')) = Len(p.packed) + 1
    /\ LET r == Rects(packer')[Len(Rects(packer'))]
       IN  /\ r.ID = size.ID
           /\ r.X = p.freeRects[c.i].X /\ r.Y = p.freeRects[c.i].Y
           /\ r.Width = OrientedWidth(size, c)
           /\ r.Height = OrientedHeight(size, c)

\* C28: a Guillotine packer with flip enabled that is given one size, fitting
\* somewhere but nowhere exactly, commits a (free rectangle, orientation)
\* pair of minimum score among all the pairs in which the size fits, upright
\* or rotated.
C28_MinScore ==
    [][(/\ Algorithm(heuristic) = Guillotine
        /\ packer.Padding = 0 /\ packer.algo.allowFlip
        /\ \/ InsertSize /\ packer.Online
           \/ Pack /\ Len(Unpacked(packer)) = 1) =>
        LET size == IF op' = "Pack" THEN Unpacked(packer)[1]
                    ELSE inserted'[Len(inserted')]
            p == packer.algo
            pairs == FittingPairs(p, size)
        IN  (pairs # {} /\ \A c \in pairs : ~PerfectPair(p, size, c)) =>
                \E c \in pairs :
                    /\ CommittedAs(p, size, c)
                    /\ \A d \in pairs : PairScore(p, size, c) <= PairScore(p, size, d)]_vars

\* The size matches the free rectangle exactly, upright, or rotated when
\* flip is enabled.
PerfectFit(p, size, freeRect) ==
    \/ size.Width = freeRect.Width /\ size.Height = freeRect.Height
    \/ p.allowFlip /\ size.Height = freeRect.Width /\ size.Width = freeRect.Height

\* The (free rectangle i, size j) pairs of the batch that match exactly.
PerfectFits(p, sizes) ==
    {c \in [i : 1..Len(p.freeRects), j : 1..Len(sizes)] :
        PerfectFit(p, sizes[c.j], p.freeRects[c.i])}

\* C29: when some (free rectangle, size) pair of the batch handed to a
\* Guillotine packer matches exactly, the pair committed in the first
\* iteration is the first such pair in iteration order: free rectangles in
\* list order, sizes in batch order within each.
C29_FirstPerfectFit ==
    [][(/\ Algorithm(heuristic) = Guillotine
        /\ packer.Padding = 0
        /\ \/ InsertSize /\ packer.Online
           \/ Pack /\ Unpacked(packer) # <<>>) =>
        LET sizes == IF op' = "Pack" THEN PackOrder(packer)
                     ELSE <<inserted'[Len(inserted')]>>
            p == packer.algo
            perfect == PerfectFits(p, sizes)
        IN  perfect # {} =>
                \E c \in perfect :
                    /\ \A d \in perfect : c.i < d.i \/ (c.i = d.i /\ c.j <= d.j)
                    /\ Len(Rects(packer')) > Len(p.packed)
                    /\ LET r == Rects(packer')[Len(p.packed) + 1]
                       IN  /\ r.ID = sizes[c.j].ID
                           /\ r.X = p.freeRects[c.i].X
                           /\ r.Y = p.freeRects[c.i].Y]_vars

\* The scores MaxRects and Skyline give the size in the state p, as the inner
\* loop of Insert compares them, and whether the size has a placement.
SizeScore(p, padding, size) ==
    LET padded == padSize(size, padding)
        Of(r, score1, score2, found) ==
            [score1 |-> score1, score2 |-> score2, found |-> found]
        OfMaxRects(r) ==
            Of(r, r.score1, r.score2, r.score1 # MaxInt \/ r.score2 # MaxInt)
        OfMinWaste(r) == Of(r, r.other, r.bestHeight, r.node.Height # 0)
        OfBottomLeft(r) == Of(r, r.bestHeight, r.other, r.node.Height # 0)
    IN  IF Algorithm(heuristic) = MaxRects
        THEN OfMaxRects(maxRects_scoreRect(heuristic, p, padded.Width, padded.Height))
        ELSE IF levelSelect(heuristic) = MinWaste
        THEN OfMinWaste(findMinWaste(p, padded.Width, padded.Height))
        ELSE OfBottomLeft(findBottomLeft(p, padded.Width, padded.Height))

\* The score a is not worse than the score b.
NotWorse(a, b) ==
    a.score1 < b.score1 \/ (a.score1 = b.score1 /\ a.score2 <= b.score2)

\* For MaxRects and Skyline: the first rectangle the step has packed is the
\* first size of the batch, in batch order, among those of the best score.
FirstOfBestSizes(p, padding, sizes) ==
    LET score == [j \in 1..Len(sizes) |-> SizeScore(p, padding, sizes[j])]
        found == {j \in 1..Len(sizes) : score[j].found}
        best == {j \in found : \A k \in found : NotWorse(score[j], score[k])}
    IN  IF found = {} THEN Rects(packer') = p.packed
        ELSE /\ Len(Rects(packer')) > Len(p.packed)
             /\ \E j \in best :
                    /\ \A k \in best : j <= k
                    /\ Rects(packer')[Len(p.packed) + 1].ID = sizes[j].ID

\* The score Guillotine gives the pair (free rectangle i, size j) when it
\* visits it: MinInt for an exact match, the scoreRect of the upright size
\* when that fits, else of the rotated size when flip is enabled and that
\* fits; found tells whether the pair is a candidate at all.
GuillotinePairScore(p, padding, sizes, c) ==
    LET freeRect == p.freeRects[c.i]
        size == padSize(sizes[c.j], padding)
    IN  IF PerfectFit(p, size, freeRect)
        THEN [score |-> MinInt, found |-> TRUE]
        ELSE IF size.Width <= freeRect.Width /\ size.Height <= freeRect.Height
        THEN [score |-> guillotine_scoreRect(heuristic, size.Width, size.Height, freeRect),
              found |-> TRUE]
        ELSE IF p.allowFlip /\ size.Height <= freeRect.Width
                            /\ size.Width <= freeRect.Height
        THEN [score |-> guillotine_scoreRect(heuristic, size.Height, size.Width, freeRect),
              found |-> TRUE]
        ELSE [score |-> MaxInt, found |-> FALSE]

\* For Guillotine: the first rectangle the step has packed is the first pair,
\* in the order free rectangles then sizes, among those of the best score.
FirstOfBestPairs(p, padding, sizes) ==
    LET pairs == [i : 1..Len(p.freeRects), j : 1..Len(sizes)]
        score == [c \in pairs |-> GuillotinePairScore(p, padding, sizes, c)]
        found == {c \in pairs : score[c].found}
        best == {c \in found : \A d \in found : score[c].score <= score[d].score}
    IN  IF found = {} THEN Rects(packer') = p.packed
        ELSE /\ Len(Rects(packer')) > Len(p.packed)
             /\ \E c \in best :
                    /\ \A d \in best : c.i < d.i \/ (c.i = d.i /\ c.j <= d.j)
                    /\ LET r == Rects(packer')[Len(p.packed) + 1]
                       IN  /\ r.ID = sizes[c.j].ID
                           /\ unpadRect([r EXCEPT !.X = p.freeRects[c.i].X,
                                                  !.Y = p.freeRects[c.i].Y],
                                        padding).X = r.X
                           /\ unpadRect([r EXCEPT !.X = p.freeRects[c.i].X,
                                                  !.Y = p.freeRects[c.i].Y],
                                        padding).Y = r.Y

\* C30: in the first iteration of every batch handed to MaxRects, Skyline or
\* Guillotine, the candidate placed is the one encountered first, in the
\* algorithm's iteration order, among the candidates that share the best
\* score; the order of the batch decides nothing else.
C30_FirstOfTies ==
    [][(\/ InsertSize /\ packer.Online
        \/ Pack /\ Unpacked(packer) # <<>>) =>
        LET sizes == IF op' = "Pack" THEN PackOrder(packer)
                     ELSE <<inserted'[Len(inserted')]>>
        IN  IF Algorithm(heuristic) = Guillotine
            THEN FirstOfBestPairs(packer.algo, packer.Padding, sizes)
            ELSE FirstOfBestSizes(packer.algo, packer.Padding, sizes)]_vars

\* The cut the split method of the heuristic asks for, when placed is put
\* into free, is horizontal.
CutIsHorizontal(free, placed) ==
    LET w_left == free.Width - placed.Width
        h_left == free.Height - placed.Height
    IN  \/ Split(heuristic) = SplitShorterLeftoverAxis /\ w_left <= h_left
        \/ Split(heuristic) = SplitLongerLeftoverAxis /\ w_left > h_left
        \/ Split(heuristic) = SplitMinimizeArea
               /\ placed.Width * h_left > w_left * placed.Height
        \/ Split(heuristic) = SplitMaximizeArea
               /\ placed.Width * h_left <= w_left * placed.Height
        \/ Split(heuristic) = SplitShorterAxis /\ free.Width <= free.Height
        \/ Split(heuristic) = SplitLongerAxis /\ free.Width > free.Height

\* The children of free once placed sits at its origin: bottom, then right,
\* those of zero width or height left out.
Children(free, placed) ==
    LET horizontal == CutIsHorizontal(free, placed)
        bottom == [X |-> free.X, Y |-> free.Y + placed.Height,
                   Width |-> IF horizontal THEN free.Width ELSE placed.Width,
                   Height |-> free.Height - placed.Height,
                   ID |-> 0, Flipped |-> FALSE]
        right == [X |-> free.X + placed.Width, Y |-> free.Y,
                  Width |-> free.Width - placed.Width,
                  Height |-> IF horizontal THEN placed.Height ELSE free.Height,
                  ID |-> 0, Flipped |-> FALSE]
    IN  SelectSeq(<<bottom, right>>, LAMBDA c : c.Width > 0 /\ c.Height > 0)

\* The step has committed one rectangle more of a Guillotine packer.
GuillotineCommit ==
    /\ Algorithm(heuristic) = Guillotine
    /\ (InsertSize /\ packer.Online) \/ Pack
    /\ Len(Rects(packer')) = Len(Rects(packer)) + 1

\* C31: a Guillotine commit puts the rectangle at the origin of one free
\* rectangle, takes that free rectangle out of the list and appends its
\* children: bottom at (X, Y + placed.Height) and right at
\* (X + placed.Width, Y), cut horizontally exactly when the condition of the
\* split method holds, and only those children of positive width and height.
C31_GuillotineSplit ==
    [][GuillotineCommit =>
        LET sizes == IF op' = "Pack" THEN Unpacked(packer)
                     ELSE <<inserted'[Len(inserted')]>>
            r == Rects(packer')[Len(Rects(packer')) ]
            free == packer.algo.freeRects
        IN  \E i \in 1..Len(free), j \in 1..Len(sizes) :
                LET placed == [X |-> free[i].X, Y |-> free[i].Y,
                               Width |-> IF r.Flipped THEN sizes[j].Height
                                         ELSE sizes[j].Width,
                               Height |-> IF r.Flipped THEN sizes[j].Width
                                          ELSE sizes[j].Height,
                               ID |-> sizes[j].ID, Flipped |-> r.Flipped]
                IN  /\ r = unpadRect(placed, packer.Padding)
                    /\ packer'.algo.freeRects =
                           SubSeq(free, 1, i - 1) \o SubSeq(free, i + 1, Len(free))
                               \o Children(free[i], placed)]_vars

\* A Guillotine commit has cut a free rectangle vertically and another one
\* horizontally: the free list holds the two children of the last cut.
C31_BothCuts ==
    /\ Algorithm(heuristic) = Guillotine
    /\ Split(heuristic) = SplitShorterLeftoverAxis
    /\ op = "InsertSize" /\ packer.Online /\ repacks = 0 /\ packer.Padding = 0
    /\ Len(Rects(packer)) = 2
    /\ ~CutIsHorizontal([X |-> 0, Y |-> 0, Width |-> BinWidth, Height |-> BinHeight],
                        Rects(packer)[1])
    /\ \E i \in 1..Len(packer.algo.freeRects) :
           CutIsHorizontal(packer.algo.freeRects[i], Rects(packer)[2])

\* The touching lengths of the placements of the padded size at the origins
\* of the free rectangles of the MaxRects state p that contain it, rotated
\* placements included when flip is enabled.
TouchingLengths(p, padding, size) ==
    LET padded == padSize(size, padding)
    IN  {contactPointScoreNode(p, p.freeRects[i].X, p.freeRects[i].Y,
                               padded.Width, padded.Height) :
            i \in {k \in 1..Len(p.freeRects) :
                      /\ p.freeRects[k].Width >= padded.Width
                      /\ p.freeRects[k].Height >= padded.Height}}
        \cup
        {contactPointScoreNode(p, p.freeRects[i].X, p.freeRects[i].Y,
                               padded.Height, padded.Width) :
            i \in {k \in 1..Len(p.freeRects) :
                      /\ p.allowFlip
                      /\ p.freeRects[k].Width >= padded.Height
                      /\ p.freeRects[k].Height >= padded.Width}}

\* The touching length of the best placement of a size that fits.
BestTouching(p, padding, size) ==
    CHOOSE t \in TouchingLengths(p, padding, size) :
        \A u \in TouchingLengths(p, padding, size) : u <= t

\* C32: under MaxRects-ContactPoint the size placed by the first iteration of
\* a batch is one whose best placement has the greatest touching length among
\* the sizes of the batch that fit.
C32_ContactPoint ==
    [][(/\ Algorithm(heuristic) = MaxRects /\ Bin(heuristic) = ContactPoint
        /\ Pack
        /\ Len(Rects(packer')) > Len(Rects(packer))) =>
        LET sizes == PackOrder(packer)
            fits == {j \in 1..Len(sizes) :
                        TouchingLengths(packer.algo, packer.Padding, sizes[j]) # {}}
        IN  \E j \in fits :
                /\ sizes[j].ID = Rects(packer')[Len(Rects(packer)) + 1].ID
                /\ \A k \in fits :
                       BestTouching(packer.algo, packer.Padding, sizes[k])
                           <= BestTouching(packer.algo, packer.Padding, sizes[j])]_vars

\* The candidates of a MaxRects iteration: a size of the batch, a free
\* rectangle and an orientation (rotated only when flip is enabled) such that
\* the free rectangle contains the padded, oriented size.
MaxRectsCandidates(p, padding, sizes) ==
    {c \in [j : 1..Len(sizes), i : 1..Len(p.freeRects), rotated : BOOLEAN] :
        LET padded == padSize(sizes[c.j], padding)
            w == IF c.rotated THEN padded.Height ELSE padded.Width
            h == IF c.rotated THEN padded.Width ELSE padded.Height
        IN  /\ c.rotated => p.allowFlip
            /\ w <= p.freeRects[c.i].Width
            /\ h <= p.freeRects[c.i].Height}

\* The node of the candidate c: the padded, oriented size at the origin of
\* the free rectangle.
CandidateNode(p, padding, sizes, c) ==
    LET padded == padSize(sizes[c.j], padding)
    IN  [X |-> p.freeRects[c.i].X, Y |-> p.freeRects[c.i].Y,
         Width |-> IF c.rotated THEN padded.Height ELSE padded.Width,
         Height |-> IF c.rotated THEN padded.Width ELSE padded.Height,
         ID |-> sizes[c.j].ID, Flipped |-> c.rotated]

\* The (primary, secondary) score of the node in the free rectangle, as the
\* score table gives it for the bin-fit of the heuristic.
TableScore(free, node) ==
    LET horiz == free.Width - node.Width
        vert == free.Height - node.Height
        short == IF horiz < vert THEN horiz ELSE vert
        long == IF horiz < vert THEN vert ELSE horiz
    IN  CASE Bin(heuristic) = BestShortSideFit -> <<short, long>>
          [] Bin(heuristic) = BestLongSideFit -> <<long, short>>
          [] Bin(heuristic) = BestAreaFit ->
                 <<free.Width * free.Height - node.Width * node.Height, short>>
          [] OTHER -> <<node.Y + node.Height, node.X>>

\* The score pair a is lexicographically not greater than b.
LexLeq(a, b) == a[1] < b[1] \/ (a[1] = b[1] /\ a[2] <= b[2])

\* The rectangles a and b have the same ID, position and dimensions.
SamePlacement(a, b) ==
    /\ a.ID = b.ID /\ a.X = b.X /\ a.Y = b.Y
    /\ a.Width = b.Width /\ a.Height = b.Height

\* C33: under MaxRects with BestShortSideFit, BestLongSideFit, BestAreaFit or
\* BottomLeft the first iteration of a batch places a candidate (size, free
\* rectangle, orientation) whose score pair of the table is lexicographically
\* minimal over all candidates that fit, at the origin of its free rectangle.
C33_MinimalPair ==
    [][(/\ Algorithm(heuristic) = MaxRects
        /\ Bin(heuristic) \in {BestShortSideFit, BestLongSideFit, BestAreaFit, BottomLeft}
        /\ (InsertSize /\ packer.Online) \/ (Pack /\ Unpacked(packer) # <<>>)) =>
        LET sizes == IF op' = "Pack" THEN PackOrder(packer)
                     ELSE <<inserted'[Len(inserted')]>>
            p == packer.algo
            cands == MaxRectsCandidates(p, packer.Padding, sizes)
            Score(c) == TableScore(p.freeRects[c.i],
                                   CandidateNode(p, packer.Padding, sizes, c))
        IN  IF cands = {} THEN Rects(packer') = Rects(packer)
            ELSE /\ Len(Rects(packer')) > Len(Rects(packer))
                 /\ \E c \in cands :
                        /\ \A d \in cands : LexLeq(Score(c), Score(d))
                        /\ SamePlacement(
                               Rects(packer')[Len(Rects(packer)) + 1],
                               unpadRect(CandidateNode(p, packer.Padding, sizes, c),
                                         packer.Padding))]_vars

\* The skyline segments of p spanned by [x, x + w).
Spanned(p, x, w) ==
    {k \in 1..Len(p.skyline) :
        p.skyline[k].X < x + w /\ p.skyline[k].X + p.skyline[k].Width > x}

\* The Y a rectangle of width w rests at when its left edge is at the X of
\* segment i: the greatest Y of the segments it spans.
RestingY(p, i, w) ==
    LET ys == {p.skyline[k].Y : k \in Spanned(p, p.skyline[i].X, w) \cup {i}}
    IN  CHOOSE y \in ys : \A z \in ys : z <= y

\* Over the segments k.. spanned by [x, x + w): overlap width times (y - Y of
\* the segment), added up.
RECURSIVE WastedAreaFrom(_, _, _, _, _)
WastedAreaFrom(p, x, w, y, k) ==
    IF k > Len(p.skyline) THEN 0
    ELSE (IF k \in Spanned(p, x, w)
          THEN LET seg == p.skyline[k]
                   right == IF x + w < seg.X + seg.Width THEN x + w
                            ELSE seg.X + seg.Width
                   left == IF seg.X < x THEN x ELSE seg.X
               IN  (right - left) * (y - seg.Y)
          ELSE 0) + WastedAreaFrom(p, x, w, y, k + 1)

\* The accepted candidates of a Skyline iteration: a size of the batch, a
\* skyline segment and an orientation (rotated only when flip is enabled) such
\* that the padded, oriented size, resting on the skyline with its left edge
\* at the X of the segment, stays inside the bin.
SkylineCandidates(p, padding, sizes) ==
    {c \in [j : 1..Len(sizes), i : 1..Len(p.skyline), rotated : BOOLEAN] :
        LET padded == padSize(sizes[c.j], padding)
            w == IF c.rotated THEN padded.Height ELSE padded.Width
            h == IF c.rotated THEN padded.Width ELSE padded.Height
        IN  /\ c.rotated => p.allowFlip
            /\ p.skyline[c.i].X + w <= p.maxWidth
            /\ RestingY(p, c.i, w) + h <= p.maxHeight}

\* The node of the candidate c.
SkylineNode(p, padding, sizes, c) ==
    LET padded == padSize(sizes[c.j], padding)
        w == IF c.rotated THEN padded.Height ELSE padded.Width
    IN  [X |-> p.skyline[c.i].X, Y |-> RestingY(p, c.i, w),
         Width |-> w,
         Height |-> IF c.rotated THEN padded.Width ELSE padded.Height,
         ID |-> sizes[c.j].ID, Flipped |-> c.rotated]

\* The score pair of the candidate c: (Y + h, width of the starting segment)
\* under BottomLeft, (wasted area, Y + h) under MinWaste.
SkylineScore(p, padding, sizes, c) ==
    LET Pair(node) ==
            IF levelSelect(heuristic) = MinWaste
            THEN <<WastedAreaFrom(p, node.X, node.Width, node.Y, 1),
                   node.Y + node.Height>>
            ELSE <<node.Y + node.Height, p.skyline[c.i].Width>>
    IN  Pair(SkylineNode(p, padding, sizes, c))

\* C34: the first iteration of a Skyline batch places a rectangle whose X is
\* the X of a skyline segment and whose Y is the greatest Y of the segments it
\* spans, inside the bin, with the lexicographically minimal score pair among
\* the accepted candidates of the batch; with no accepted candidate nothing
\* is placed.
C34_SkylinePlacement ==
    [][(/\ Algorithm(heuristic) = Skyline
        /\ (InsertSize /\ packer.Online) \/ (Pack /\ Unpacked(packer) # <<>>)) =>
        LET sizes == IF op' = "Pack" THEN PackOrder(packer)
                     ELSE <<inserted'[Len(inserted')]>>
            p == packer.algo
            cands == SkylineCandidates(p, packer.Padding, sizes)
        IN  IF cands = {} THEN Rects(packer') = Rects(packer)
            ELSE /\ Len(Rects(packer')) > Len(Rects(packer))
                 /\ \E c \in cands :
                        /\ \A d \in cands :
                               LexLeq(SkylineScore(p, packer.Padding, sizes, c),
                                      SkylineScore(p, packer.Padding, sizes, d))
                        /\ SamePlacement(
                               Rects(packer')[Len(Rects(packer)) + 1],
                               unpadRect(SkylineNode(p, packer.Padding, sizes, c),
                                         packer.Padding))]_vars

\* The cells beneath the skyline surface of p: the cells of the columns of
\* each segment that lie below its Y.
BelowSkyline(p) ==
    UNION {(p.skyline[k].X..(p.skyline[k].X + p.skyline[k].Width - 1))
               \X (0..(p.skyline[k].Y - 1)) : k \in 1..Len(p.skyline)}

\* C35: in a Skyline-MinWaste packer every rectangle of the free list of the
\* waste map lies entirely beneath the skyline surface and overlaps no packed
\* rectangle.
C35_WastePockets ==
    (Algorithm(heuristic) = Skyline /\ levelSelect(heuristic) = MinWaste) =>
        \A k \in 1..Len(packer.algo.wasteMap) :
            /\ Points(packer.algo.wasteMap[k]) \subseteq BelowSkyline(packer.algo)
            /\ Points(packer.algo.wasteMap[k]) \cap CoveredBy(Rects(packer)) = {}

\* The footprint f has been committed to the free-space structure by the
\* step: its area is added to usedArea; MaxRects takes its cells out of the
\* cover of the free rectangles, Skyline raises the surface over its columns
\* to its top edge, Guillotine replaces a free rectangle with origin at the
\* footprint by the children the footprint leaves.
FootprintCommitted(f) ==
    /\ packer'.algo.usedArea = packer.algo.usedArea + f.Width * f.Height
    /\ Algorithm(heuristic) = MaxRects =>
           CoveredBy(packer'.algo.freeRects) =
               CoveredBy(packer.algo.freeRects) \ Points(f)
    /\ Algorithm(heuristic) = Skyline =>
           BelowSkyline(packer'.algo) =
               BelowSkyline(packer.algo)
                   \cup ((f.X..(f.X + f.Width - 1)) \X (0..(f.Y + f.Height - 1)))
    /\ Algorithm(heuristic) = Guillotine =>
           \E i \in 1..Len(packer.algo.freeRects) :
               LET free == packer.algo.freeRects
               IN  /\ free[i].X = f.X /\ free[i].Y = f.Y
                   /\ packer'.algo.freeRects =
                          SubSeq(free, 1, i - 1) \o SubSeq(free, i + 1, Len(free))
                              \o Children(free[i], f)

\* C36: with padding p > 0, an online InsertSize(id, w, h) that places its
\* rectangle commits a footprint of the dimensions (w + p) x (h + p), or
\* (h + p) x (w + p) when rotated, to the free-space structure, and the
\* rectangle put out is that footprint contracted.
C36_PaddedFootprint ==
    [][(/\ InsertSize /\ packer.Online /\ packer.Padding > 0
        /\ Len(Rects(packer')) = Len(Rects(packer)) + 1) =>
        LET size == inserted'[Len(inserted')]
            r == Rects(packer')[Len(Rects(packer'))]
        IN  \E x \in 0..packer.algo.maxWidth, y \in 0..packer.algo.maxHeight,
               rotated \in BOOLEAN :
                LET f == [X |-> x, Y |-> y,
                          Width |-> (IF rotated THEN size.Height ELSE size.Width)
                                        + packer.Padding,
                          Height |-> (IF rotated THEN size.Width ELSE size.Height)
                                        + packer.Padding,
                          ID |-> size.ID, Flipped |-> rotated]
                IN  /\ rotated => packer.algo.allowFlip
                    /\ SamePlacement(r, unpadRect(f, packer.Padding))
                    /\ FootprintCommitted(f)]_vars

\* None of the sizes, padded, in either orientation when flip is enabled,
\* fits in a free rectangle of pk (MaxRects, Guillotine) or can rest on a
\* skyline segment of pk within the bin (Skyline).
NothingFits(pk, sizes) ==
    IF Algorithm(heuristic) = Skyline
    THEN SkylineCandidates(pk.algo, pk.Padding, sizes) = {}
    ELSE MaxRectsCandidates(pk.algo, pk.Padding, sizes) = {}

\* C37: when an online InsertSize hands its size back, or a Pack leaves sizes
\* staged, none of the sizes left unplaced fits in the free space the call
\* leaves.
C37_GreedyMaximal ==
    [][/\ (InsertSize /\ packer.Online) => NothingFits(packer', retSizes')
       /\ Pack => NothingFits(packer', Unpacked(packer'))]_vars

\* Every size of the sequence has Width and Height >= 1.
ValidSizes(sizes) ==
    \A k \in 1..Len(sizes) : sizes[k].Width >= 1 /\ sizes[k].Height >= 1

\* C38: an online InsertSize and a Pack whose batch holds sizes of Width and
\* Height >= 1 return: the walk of the Skyline fit test stays within the
\* segment list, and the loop has placed and removed one size per iteration,
\* so every size of the batch is either packed or left over.
C38_Terminates ==
    [][/\ (InsertSizeOrPanic /\ packer.Online) =>
              /\ ~panicked'
              /\ Len(Rects(packer')) + Len(retSizes') = Len(Rects(packer)) + 1
       /\ (PackOrPanic /\ ValidSizes(Unpacked(packer))) =>
              /\ ~panicked'
              /\ Len(Rects(packer')) + Len(Unpacked(packer'))
                     = Len(Rects(packer)) + Len(Unpacked(packer))]_vars

\* The areas of the rectangles of seq from index i on, added up.
RECURSIVE FreeAreaFrom(_, _)
FreeAreaFrom(seq, i) ==
    IF i > Len(seq) THEN 0
    ELSE seq[i].Width * seq[i].Height + FreeAreaFrom(seq, i + 1)

\* C39: in a Guillotine packer the areas of the free rectangles and usedArea
\* add up to the area of the bin.
C39_GuillotineArea ==
    Algorithm(heuristic) = Guillotine =>
        FreeAreaFrom(packer.algo.freeRects, 1) + packer.algo.usedArea
            = packer.algo.maxWidth * packer.algo.maxHeight

\* C40: a RepackAll called while no rectangle is packed computes the
\* bounding Size {0, 0} and panics in the Reset of the algorithm; a RepackAll
\* that completes was called with at least one rectangle packed.
C40_RepackAllEmpty ==
    [][RepackAll =>
        /\ Rects(packer) = <<>> =>
               /\ Packer_Size(packer) = [Width |-> 0, Height |-> 0]
               /\ panicked'
        /\ ~panicked' => Len(Rects(packer)) >= 1]_vars

\* RepackAll has panicked in a packer that had sizes staged and no rectangle
\* packed.
C40_PanickedEmpty ==
    /\ op = "RepackAll" /\ panicked
    /\ Rects(packer) = <<>>
    /\ Unpacked(packer) # <<>>

====
